---- MODULE Spec2Model ----
(***************************************************************************)
(* Uptime monitor: the ping scheduler, the bounded fan-out batch and the   *)
(* record store (app/services/ping_service.py); the aggregation of the     *)
(* records into status bars (app/services/server_service.py).              *)
(*                                                                         *)
(* Every action is one run of a coroutine between two suspension points    *)
(* (await) of the asyncio event loop, or one synchronous call.             *)
(***************************************************************************)
EXTENDS Integers, Sequences, FiniteSets, Bags, TLC

\* asyncio.Semaphore(10)
SemLimit == 10

\* Bounds of the model.
GateTargets == 11      \* targets of the directory in the large-batch specification
NumTargets == 2        \* targets of the directory in the other specifications
MaxTasks == 3          \* loop tasks ever created by start_ping_scheduler
MaxBatches == 2        \* calls of ping_all_servers over all loop tasks
NumCallers == 2        \* coroutines that call start/stop_ping_scheduler
MaxClients == 2        \* HTTP clients ever created

Max(a, b) == IF a > b THEN a ELSE b

Targets == 1..Max(GateTargets, NumTargets)
Tasks == 1..MaxTasks

\* What the network (and the session) does for a target when it is probed:
\*   ok       a response with status code < 400
\*   err      a response with status code >= 400
\*   timeout  httpx.TimeoutException / RequestError in the GET
\*   fault    an exception leaves ping_server (init_http_client, outside its try)
\*   recfault the session rejects the record: db.add raises in the try block and
\*            again in the except block of ping_and_record
Responses == {"ok", "err", "timeout", "fault", "recfault"}

VARIABLES
    running,     \* _running
    ping_task,   \* _ping_task: 0 is None, otherwise the id of a loop task
    pc,          \* position of each ping_loop task
    cancelReq,   \* Task.cancel() was called on the loop task
    batchOf,     \* number of the ping_all_servers call the task is in (or was last in)
    servers,     \* the list get_servers returned to the task's batch
    child,       \* state of each bounded_ping task of the batch
    sem,         \* value of the batch's semaphore
    db,          \* records added to the batch's session and not committed
    iterErr,     \* how the task's last finished iteration ended: "none" without an
                 \* error, "swallowed" logged by ping_all_servers, "raised" logged
                 \* by ping_loop
    dropped,     \* records the session held when it was closed without commit
    nextBatch,   \* number of the next ping_all_servers call
    store,       \* committed uptime_records rows
    directory,   \* ids of the servers table
    net,         \* what probing each target leads to
    stopWait,    \* per loop task, the calls of stop_ping_scheduler that await it
    log,         \* the scheduler message logged by the last step ("" if none)
    app,         \* position of the application's lifespan coroutine
    manual,      \* the calls of ping_server_now: the one in progress, the last result
    agg,         \* the aggregator: uptime_records with timestamps, the clock, a call
    limiter,     \* the rate limiter of the API: its configuration and its counters
    http_client, \* _http_client and the clients created: the handle, the open ones
    lastCall     \* which of start/stop_ping_scheduler was called last (history)

vars == <<running, ping_task, pc, cancelReq, batchOf, servers, child, sem, db,
          iterErr, dropped, nextBatch, store, directory, net, limiter, http_client, lastCall, manual, agg, stopWait, log,
          app>>

taskVars == <<pc, cancelReq, batchOf, servers, child, sem, db, iterErr, dropped,
              nextBatch>>

\* No call of ping_server_now was made yet.
NoManual == [pc |-> "idle", calls |-> 0, probes |-> 0, server_id |-> 0, resp |-> "",
             outcome |-> [raises |-> FALSE, status |-> "", response_time_ms |-> "None"],
             result |-> ""]

\* The aggregator is not in use.
NoAgg == [pc |-> "off"]

\* No request has reached the rate limiter.
NoLimiter == [pc |-> "off"]

\* No HTTP client was created yet: _http_client is None (handle 0).
NoClient == [handle |-> 0, open |-> {}, closing |-> 0, made |-> 0]

\* Mutant of init_http_client: without the test `_http_client is None`.
init_http_client_Always(h) ==
    [h EXCEPT !.handle = h.made + 1,
              !.open = h.open \cup {h.made + 1},
              !.made = h.made + 1]

\* init_http_client(): creates a client when the handle is None. The function
\* has no await, so a caller runs it without being suspended.
init_http_client(h) ==
    IF h.handle = 0
    THEN [h EXCEPT !.handle = h.made + 1,
                   !.open = h.open \cup {h.made + 1},
                   !.made = h.made + 1]
    ELSE h

\* The bound on the number of clients lets init_http_client create one.
CanCreate(h) == h.handle # 0 \/ h.made < MaxClients

\* close_http_client() up to its await: aclose() marks the client closed and
\* suspends while its connections are closed; without a client the call
\* returns at once.
close_http_client(h) ==
    IF h.handle # 0
    THEN [h EXCEPT !.closing = h.handle, !.open = h.open \ {h.handle}]
    ELSE h

\* close_http_client() after its await: `_http_client = None`.
CloseResume(h) == [h EXCEPT !.handle = 0, !.closing = 0]

NoChildren == [t \in Targets |-> "none"]
EmptySession == [t \in Targets |-> <<>>]

Alive(k) == pc[k] \notin {"none", "done"}
InBatch(k) == pc[k] \in {"fetch", "gather", "commit"}
NumCreated == Cardinality({k \in Tasks : pc[k] # "none"})

\* Task.done() of the task the handle refers to
TaskDone(k) == pc[k] = "done"

InitCommon ==
    /\ running = FALSE
    /\ ping_task = 0
    /\ pc = [k \in Tasks |-> "none"]
    /\ cancelReq = [k \in Tasks |-> FALSE]
    /\ batchOf = [k \in Tasks |-> 0]
    /\ servers = [k \in Tasks |-> {}]
    /\ child = [k \in Tasks |-> NoChildren]
    /\ sem = [k \in Tasks |-> 0]
    /\ db = [k \in Tasks |-> EmptySession]
    /\ iterErr = [k \in Tasks |-> "none"]
    /\ dropped = [k \in Tasks |-> 0]
    /\ nextBatch = 1
    /\ store = {}
    /\ stopWait = [k \in Tasks |-> 0]
    /\ log = ""
    /\ manual = NoManual
    /\ lastCall = ""

\* The scheduler driven through its functions by any caller: a small
\* directory whose targets all answer the same way.
Init ==
    /\ InitCommon
    /\ agg = NoAgg
    /\ limiter = NoLimiter
    /\ app = "serving"
    /\ http_client = init_http_client(NoClient)
    /\ directory = 1..NumTargets
    /\ net \in {[t \in Targets |-> r] : r \in Responses}

\* The application as main.py runs it: a small directory, every combination of
\* answers of its targets.
InitApp ==
    /\ InitCommon
    /\ agg = NoAgg
    /\ limiter = NoLimiter
    /\ app = "startup"
    /\ http_client = NoClient
    /\ directory = 1..NumTargets
    /\ net \in {[t \in Targets |-> IF t \in 1..NumTargets THEN f[t] ELSE "ok"] :
                  f \in [1..NumTargets -> Responses]}

\* The application over a small directory whose targets all answer the same way.
InitAppUniform ==
    /\ InitCommon
    /\ agg = NoAgg
    /\ limiter = NoLimiter
    /\ app = "startup"
    /\ http_client = NoClient
    /\ directory = 1..NumTargets
    /\ net \in {[t \in Targets |-> r] : r \in Responses}

\* The application over a directory larger than the semaphore.
InitGate ==
    /\ InitCommon
    /\ agg = NoAgg
    /\ limiter = NoLimiter
    /\ app = "startup"
    /\ http_client = NoClient
    /\ directory = 1..GateTargets
    /\ net \in {[t \in Targets |-> r] : r \in Responses}

(***************************************************************************)
(* Prober and recorder                                                     *)
(***************************************************************************)

\* What a request can lead to. "ok", "http399", "http400" and "err" are
\* responses, with the status codes below; "timeout" is httpx.TimeoutException,
\* "request_error" any other httpx.RequestError, "exception" any other
\* exception raised by the request; "fault" is an exception raised before the
\* try block (by init_http_client).
Answers == {"ok", "http399", "http400", "err"}
TransportFailures == {"timeout", "request_error", "exception"}

\* response.status_code
status_code(resp) ==
    CASE resp = "ok"      -> 200
      [] resp = "http399" -> 399
      [] resp = "http400" -> 400
      [] resp = "err"     -> 500

\* Mutant of ping_server: a response with status code 400 counts as UP.
ping_server_UpAt400(resp) ==
    IF resp \in Answers
    THEN IF status_code(resp) <= 400
         THEN [raises |-> FALSE, status |-> "UP",   response_time_ms |-> "ms"]
         ELSE [raises |-> FALSE, status |-> "DOWN", response_time_ms |-> "ms"]
    ELSE IF resp \in TransportFailures
    THEN [raises |-> FALSE, status |-> "DOWN", response_time_ms |-> "None"]
    ELSE [raises |-> TRUE,  status |-> "",     response_time_ms |-> "None"]

\* Mutant of ping_server: without the last `except Exception`.
ping_server_NoCatchAll(resp) ==
    IF resp \in Answers
    THEN IF status_code(resp) < 400
         THEN [raises |-> FALSE, status |-> "UP",   response_time_ms |-> "ms"]
         ELSE [raises |-> FALSE, status |-> "DOWN", response_time_ms |-> "ms"]
    ELSE IF resp \in {"timeout", "request_error"}
    THEN [raises |-> FALSE, status |-> "DOWN", response_time_ms |-> "None"]
    ELSE [raises |-> TRUE,  status |-> "",     response_time_ms |-> "None"]

\* ping_server: the (status, response_time_ms) it returns, or the exception
\* that leaves it. A measured response time is "ms", an absent one "None".
ping_server(resp) ==
    IF resp \in Answers
    THEN IF status_code(resp) < 400
         THEN [raises |-> FALSE, status |-> "UP",   response_time_ms |-> "ms"]
         ELSE [raises |-> FALSE, status |-> "DOWN", response_time_ms |-> "ms"]
    ELSE IF resp \in TransportFailures
    THEN [raises |-> FALSE, status |-> "DOWN", response_time_ms |-> "None"]
    ELSE [raises |-> TRUE,  status |-> "",     response_time_ms |-> "None"]

\* UptimeRecord(server_id=..., status=..., response_time_ms=...)
UptimeRecord(status, response_time) ==
    [status |-> status, response_time_ms |-> response_time]

\* Mutant of ping_and_record: the except block adds no record.
ping_and_record_NoFallback(recs, resp) ==
    IF resp = "recfault" \/ ping_server(resp).raises
    THEN [recs |-> recs, raised |-> TRUE]
    ELSE [recs |-> Append(recs, UptimeRecord(ping_server(resp).status,
                                             ping_server(resp).response_time_ms)),
          raised |-> FALSE]

\* ping_and_record on the records the session holds for the server: the new
\* list of records, and whether an exception leaves the function.
ping_and_record(recs, resp) ==
    IF resp = "recfault"
    THEN [recs |-> recs, raised |-> TRUE]
    ELSE IF ping_server(resp).raises
         THEN [recs |-> Append(recs, UptimeRecord("DOWN", "None")), raised |-> FALSE]
         ELSE [recs |-> Append(recs, UptimeRecord(ping_server(resp).status,
                                                  ping_server(resp).response_time_ms)),
               raised |-> FALSE]

\* The rows a commit of task k's session writes. batch stands for the
\* server-side timestamp of the transaction, n numbers the records of one server.
SessionRows(k) ==
    UNION {{[batch |-> batchOf[k], server_id |-> t, n |-> i,
             status |-> db[k][t][i].status,
             response_time_ms |-> db[k][t][i].response_time_ms] :
               i \in 1..Len(db[k][t])} : t \in Targets}

SessionSize(k) == Cardinality(SessionRows(k))

RowsOfBatch(b) == {r \in store : r.batch = b}

(***************************************************************************)
(* start_ping_scheduler / stop_ping_scheduler                              *)
(***************************************************************************)

\* start_ping_scheduler(): synchronous, so one step.
start_ping_scheduler ==
    /\ IF ping_task # 0 /\ ~TaskDone(ping_task)
       THEN /\ log' = "already_running"
            /\ UNCHANGED <<running, ping_task, taskVars>>
       ELSE /\ NumCreated < MaxTasks
            /\ running' = TRUE
            /\ ping_task' = NumCreated + 1
            /\ pc' = [pc EXCEPT ![NumCreated + 1] = "new"]
            /\ log' = "started"
            /\ UNCHANGED <<cancelReq, batchOf, servers, child, sem, db, iterErr,
                           dropped, nextBatch>>
    /\ lastCall' = "start"
    /\ UNCHANGED <<store, directory, net, limiter, manual, agg, stopWait>>

\* Mutant of stop_ping_scheduler: a call without a task handle is an error.
stop_ping_scheduler_Strict ==
    /\ running' = FALSE
    /\ IF ping_task = 0
       THEN /\ log' = "error"
            /\ UNCHANGED <<ping_task, cancelReq, stopWait>>
       ELSE IF TaskDone(ping_task)
       THEN /\ ping_task' = 0
            /\ log' = "stopped"
            /\ UNCHANGED <<cancelReq, stopWait>>
       ELSE /\ cancelReq' = [cancelReq EXCEPT ![ping_task] = TRUE]
            /\ stopWait' = [stopWait EXCEPT ![ping_task] = stopWait[ping_task] + 1]
            /\ log' = ""
            /\ UNCHANGED ping_task
    /\ lastCall' = "stop"
    /\ UNCHANGED <<pc, batchOf, servers, child, sem, db, iterErr, dropped,
                   nextBatch, store, directory, net, limiter, manual, agg>>

\* stop_ping_scheduler() up to its await: clears the flag, cancels the task the
\* handle refers to. Awaiting a finished task does not suspend, so the call
\* then runs to its end in the same step.
stop_ping_scheduler ==
    /\ running' = FALSE
    /\ IF ping_task = 0
       THEN /\ log' = "stopped"
            /\ UNCHANGED <<ping_task, cancelReq, stopWait>>
       ELSE IF TaskDone(ping_task)
       THEN /\ ping_task' = 0
            /\ log' = "stopped"
            /\ UNCHANGED <<cancelReq, stopWait>>
       ELSE /\ cancelReq' = [cancelReq EXCEPT ![ping_task] = TRUE]
            /\ stopWait' = [stopWait EXCEPT ![ping_task] = stopWait[ping_task] + 1]
            /\ log' = ""
            /\ UNCHANGED ping_task
    /\ lastCall' = "stop"
    /\ UNCHANGED <<pc, batchOf, servers, child, sem, db, iterErr, dropped,
                   nextBatch, store, directory, net, limiter, manual, agg>>

\* stop_ping_scheduler() after its await of task k, which has finished:
\* CancelledError is swallowed and the handle is cleared.
StopResume(k) ==
    /\ stopWait[k] > 0
    /\ TaskDone(k)
    /\ ping_task' = 0
    /\ stopWait' = [stopWait EXCEPT ![k] = stopWait[k] - 1]
    /\ log' = "stopped"
    /\ UNCHANGED <<running, taskVars, store, directory, net, limiter, lastCall, manual, agg>>

\* The event loop runs ready callbacks first in, first out: the wake-up of a
\* stop_ping_scheduler whose awaited task has finished was queued before any
\* task created afterwards takes its first step.
StopWakeupQueued == \E k \in Tasks : stopWait[k] > 0 /\ TaskDone(k)

(***************************************************************************)
(* Callers of the scheduler                                                *)
(***************************************************************************)

RECURSIVE Sum(_, _)
Sum(f, S) == IF S = {} THEN 0
             ELSE LET x == CHOOSE y \in S : TRUE IN f[x] + Sum(f, S \ {x})

\* Some calling coroutine is not suspended inside stop_ping_scheduler.
CallerFree == Sum(stopWait, Tasks) < NumCallers

\* Any coroutine calls start_ping_scheduler().
CallStart == CallerFree /\ start_ping_scheduler /\ UNCHANGED <<app, http_client>>

\* Any coroutine calls stop_ping_scheduler().
CallStop == CallerFree /\ stop_ping_scheduler /\ UNCHANGED <<app, http_client>>

\* A suspended call of stop_ping_scheduler() returns.
StopReturn(k) == StopResume(k) /\ UNCHANGED <<app, http_client>>

\* lifespan, startup: init_db, init_http_client, start_ping_scheduler, yield.
\* init_db runs the migrations in a subprocess without an await, so the
\* startup is one step.
LifespanStartup ==
    /\ app = "startup"
    /\ CanCreate(http_client)
    /\ http_client' = init_http_client(http_client)
    /\ start_ping_scheduler
    /\ app' = "serving"

\* lifespan once stop_ping_scheduler() has returned: close_http_client() is
\* called and suspends in aclose(); without a client it returns at once and
\* close_db() is awaited.
AfterStop ==
    /\ http_client' = close_http_client(http_client)
    /\ app' = IF http_client.handle # 0 THEN "closing_client" ELSE "closing_db"

\* Mutant of LifespanShutdown: stop_ping_scheduler() is not awaited, the
\* lifespan goes on to close the HTTP client while the loop task unwinds.
LifespanShutdownNoAwait ==
    /\ app = "serving"
    /\ stop_ping_scheduler
    /\ AfterStop

\* lifespan, shutdown: await stop_ping_scheduler(), which suspends when it has
\* a loop task to wait for.
LifespanShutdown ==
    /\ app = "serving"
    /\ stop_ping_scheduler
    /\ IF log' = "stopped"
       THEN AfterStop
       ELSE app' = "stopping" /\ UNCHANGED http_client

\* lifespan resumed by the end of the loop task it awaited in
\* stop_ping_scheduler().
LifespanStopped(k) ==
    /\ app = "stopping"
    /\ StopResume(k)
    /\ AfterStop

\* lifespan resumed in close_http_client(): the handle is cleared, then
\* close_db() is awaited.
LifespanClientClosed ==
    /\ app = "closing_client"
    /\ http_client' = CloseResume(http_client)
    /\ app' = "closing_db"
    /\ log' = ""
    /\ UNCHANGED <<running, ping_task, taskVars, store, directory, net, limiter,
                   lastCall, manual, agg, stopWait>>

\* lifespan resumed in close_db(): the engine is disposed, the lifespan ends.
LifespanDbClosed ==
    /\ app = "closing_db"
    /\ app' = "closed"
    /\ log' = ""
    /\ UNCHANGED <<running, ping_task, taskVars, store, directory, net, limiter,
                   http_client, lastCall, manual, agg, stopWait>>

(***************************************************************************)
(* ping_loop and ping_all_servers (one loop task k)                        *)
(***************************************************************************)

\* The session of the batch is closed (async with ... as db): what it holds
\* and was not committed is rolled back.
CloseSession(k) ==
    /\ db' = [db EXCEPT ![k] = EmptySession]
    /\ child' = [child EXCEPT ![k] = NoChildren]
    /\ sem' = [sem EXCEPT ![k] = 0]

\* `while _running:` at the first step of the task or after the sleep; when
\* the flag is set the task enters ping_all_servers, opens the session and
\* awaits get_servers.
LoopCheck(k) ==
    /\ pc[k] \in {"new", "sleep"}
    /\ ~cancelReq[k]
    /\ pc[k] = "new" => ~StopWakeupQueued
    /\ IF running
       THEN /\ nextBatch <= MaxBatches
            /\ pc' = [pc EXCEPT ![k] = "fetch"]
            /\ batchOf' = [batchOf EXCEPT ![k] = nextBatch]
            /\ nextBatch' = nextBatch + 1
            /\ servers' = [servers EXCEPT ![k] = {}]
       ELSE /\ pc' = [pc EXCEPT ![k] = "done"]
            /\ UNCHANGED <<batchOf, nextBatch, servers>>
    /\ log' = ""
    /\ UNCHANGED <<running, ping_task, cancelReq, child, sem, db, iterErr, dropped, store,
                   directory, net, limiter, http_client, lastCall, manual, agg, stopWait, app>>

\* Mutant of FetchDone: the list of targets is the one configured at startup,
\* not the servers table as it is now.
FetchDoneStatic(k) ==
    /\ pc[k] = "fetch"
    /\ ~cancelReq[k]
    /\ servers' = [servers EXCEPT ![k] = 1..NumTargets]
    /\ pc' = [pc EXCEPT ![k] = "gather"]
    /\ sem' = [sem EXCEPT ![k] = SemLimit]
    /\ child' = [child EXCEPT ![k] =
                    [t \in Targets |-> IF t \in 1..NumTargets THEN "wait" ELSE "none"]]
    /\ log' = ""
    /\ UNCHANGED <<running, ping_task, cancelReq, batchOf, db, iterErr,
                   dropped, nextBatch, store, directory, net, limiter, http_client, lastCall, manual, agg, stopWait, app>>

\* Mutant of FetchDone: without the early return for an empty list.
FetchDoneNoEarlyReturn(k) ==
    /\ pc[k] = "fetch"
    /\ ~cancelReq[k]
    /\ servers' = [servers EXCEPT ![k] = directory]
    /\ pc' = [pc EXCEPT ![k] = "gather"]
    /\ sem' = [sem EXCEPT ![k] = SemLimit]
    /\ child' = [child EXCEPT ![k] =
                    [t \in Targets |-> IF t \in directory THEN "wait" ELSE "none"]]
    /\ log' = ""
    /\ UNCHANGED <<running, ping_task, cancelReq, batchOf, db, iterErr,
                   dropped, nextBatch, store, directory, net, limiter, http_client, lastCall, manual, agg, stopWait, app>>

\* get_servers returns: no server ends the call; otherwise the semaphore and
\* one bounded_ping task per server are created and the task awaits gather.
FetchDone(k) ==
    /\ pc[k] = "fetch"
    /\ ~cancelReq[k]
    /\ servers' = [servers EXCEPT ![k] = directory]
    /\ IF directory = {}
       THEN /\ pc' = [pc EXCEPT ![k] = "sleep"]
            /\ iterErr' = [iterErr EXCEPT ![k] = "none"]
            /\ UNCHANGED <<child, sem>>
       ELSE /\ pc' = [pc EXCEPT ![k] = "gather"]
            /\ sem' = [sem EXCEPT ![k] = SemLimit]
            /\ child' = [child EXCEPT ![k] =
                            [t \in Targets |-> IF t \in directory THEN "wait" ELSE "none"]]
            /\ UNCHANGED iterErr
    /\ log' = ""
    /\ UNCHANGED <<running, ping_task, cancelReq, batchOf, db,
                   dropped, nextBatch, store, directory, net, limiter, http_client, lastCall, manual, agg, stopWait, app>>

\* Mutant of IterationFails: a failed batch is tried again at once, without
\* the interval wait.
IterationRetriesAtOnce(k, rollbackOk) ==
    /\ iterErr' = [iterErr EXCEPT ![k] = IF rollbackOk THEN "swallowed" ELSE "raised"]
    /\ pc' = [pc EXCEPT ![k] = "fetch"]
    /\ CloseSession(k)

\* Mutant of IterationFails: an exception that reaches ping_loop ends the loop.
IterationEndsLoop(k, rollbackOk) ==
    /\ iterErr' = [iterErr EXCEPT ![k] = IF rollbackOk THEN "swallowed" ELSE "raised"]
    /\ pc' = [pc EXCEPT ![k] = IF rollbackOk THEN "sleep" ELSE "done"]
    /\ db' = [db EXCEPT ![k] = EmptySession]
    /\ child' = [child EXCEPT ![k] = NoChildren]
    /\ sem' = [sem EXCEPT ![k] = 0]

\* How an exception of the batch ends the iteration: the handler of
\* ping_all_servers logs it and rolls back; when the rollback raises too, the
\* exception reaches the handler of ping_loop. The loop then sleeps.
IterationFails(k, rollbackOk) ==
    /\ iterErr' = [iterErr EXCEPT ![k] = IF rollbackOk THEN "swallowed" ELSE "raised"]
    /\ pc' = [pc EXCEPT ![k] = "sleep"]
    /\ CloseSession(k)

\* get_servers raises (the database is unreachable).
FetchFail(k) ==
    /\ pc[k] = "fetch"
    /\ ~cancelReq[k]
    /\ \E rollbackOk \in BOOLEAN : IterationFails(k, rollbackOk)
    /\ log' = ""
    /\ UNCHANGED <<running, ping_task, cancelReq, batchOf, servers, dropped,
                   nextBatch, store, directory, net, limiter, http_client, lastCall, manual, agg, stopWait, app>>

\* Mutant of Acquire: bounded_ping without the semaphore.
AcquireNoGate(k, t) ==
    /\ pc[k] = "gather"
    /\ ~cancelReq[k]
    /\ child[k][t] = "wait"
    /\ \A u \in Targets : u < t => child[k][u] # "wait"
    /\ sem' = [sem EXCEPT ![k] = sem[k] - 1]
    /\ child' = [child EXCEPT ![k][t] = "inflight"]
    /\ CanCreate(http_client)
    /\ http_client' = init_http_client(http_client)
    /\ log' = ""
    /\ UNCHANGED <<running, ping_task, pc, cancelReq, batchOf, servers, db, iterErr,
                   dropped, nextBatch, store, directory, net, limiter, lastCall, manual, agg, stopWait, app>>

\* bounded_ping: `async with sem` lets the task in when a slot is free. Tasks
\* start in list order and asyncio.Semaphore wakes its waiters in order. The
\* task then runs into ping_server, which creates the HTTP client when the
\* handle is None, and sends its request.
Acquire(k, t) ==
    /\ pc[k] = "gather"
    /\ ~cancelReq[k]
    /\ child[k][t] = "wait"
    /\ \A u \in Targets : u < t => child[k][u] # "wait"
    /\ sem[k] > 0
    /\ sem' = [sem EXCEPT ![k] = sem[k] - 1]
    /\ child' = [child EXCEPT ![k][t] = "inflight"]
    /\ CanCreate(http_client)
    /\ http_client' = init_http_client(http_client)
    /\ log' = ""
    /\ UNCHANGED <<running, ping_task, pc, cancelReq, batchOf, servers, db, iterErr,
                   dropped, nextBatch, store, directory, net, limiter, lastCall, manual, agg, stopWait, app>>

\* Mutant of ProbeFinish: ping_and_record commits its record at once.
ProbeFinishCommitsEach(k, t) ==
    /\ pc[k] = "gather"
    /\ ~cancelReq[k]
    /\ child[k][t] = "inflight"
    /\ LET r == ping_and_record(db[k][t], net[t])
       IN /\ db' = [db EXCEPT ![k][t] = r.recs]
          /\ child' = [child EXCEPT ![k][t] = IF r.raised THEN "raised" ELSE "done"]
          /\ store' = store \cup
                {[batch |-> batchOf[k], server_id |-> t, n |-> i,
                  status |-> r.recs[i].status,
                  response_time_ms |-> r.recs[i].response_time_ms] : i \in 1..Len(r.recs)}
    /\ sem' = [sem EXCEPT ![k] = sem[k] + 1]
    /\ log' = ""
    /\ UNCHANGED <<running, ping_task, pc, cancelReq, batchOf, servers, iterErr,
                   dropped, nextBatch, directory, net, limiter, http_client, lastCall, manual, agg, stopWait, app>>

\* Mutant of ProbeFinish: the slot is given back only after a probe that found
\* the server UP.
ProbeFinishLeaksSlot(k, t) ==
    /\ pc[k] = "gather"
    /\ ~cancelReq[k]
    /\ child[k][t] = "inflight"
    /\ LET r == ping_and_record(db[k][t], net[t])
       IN /\ db' = [db EXCEPT ![k][t] = r.recs]
          /\ child' = [child EXCEPT ![k][t] = IF r.raised THEN "raised" ELSE "done"]
    /\ sem' = [sem EXCEPT ![k] = IF net[t] = "ok" THEN sem[k] + 1 ELSE sem[k]]
    /\ log' = ""
    /\ UNCHANGED <<running, ping_task, pc, cancelReq, batchOf, servers, iterErr,
                   dropped, nextBatch, store, directory, net, limiter, http_client, lastCall, manual, agg, stopWait, app>>

\* The probe of server t ends: ping_and_record adds its record to the session
\* (or raises), and leaving `async with sem` releases the slot.
ProbeFinish(k, t) ==
    /\ pc[k] = "gather"
    /\ ~cancelReq[k]
    /\ child[k][t] = "inflight"
    /\ LET r == ping_and_record(db[k][t], net[t])
       IN /\ db' = [db EXCEPT ![k][t] = r.recs]
          /\ child' = [child EXCEPT ![k][t] = IF r.raised THEN "raised" ELSE "done"]
    /\ sem' = [sem EXCEPT ![k] = sem[k] + 1]
    /\ log' = ""
    /\ UNCHANGED <<running, ping_task, pc, cancelReq, batchOf, servers, iterErr,
                   dropped, nextBatch, store, directory, net, limiter, http_client, lastCall, manual, agg, stopWait, app>>

\* Cancelling the loop task while it awaits gather cancels every child:
\* CancelledError is no Exception, so neither ping_server nor ping_and_record
\* catches it and the child ends without a record.
ChildCancel(k, t) ==
    /\ pc[k] = "gather"
    /\ cancelReq[k]
    /\ child[k][t] \in {"wait", "inflight"}
    /\ sem' = [sem EXCEPT ![k] = IF child[k][t] = "inflight" THEN sem[k] + 1 ELSE sem[k]]
    /\ child' = [child EXCEPT ![k][t] = "cancelled"]
    /\ log' = ""
    /\ UNCHANGED <<running, ping_task, pc, cancelReq, batchOf, servers, db, iterErr,
                   dropped, nextBatch, store, directory, net, limiter, http_client, lastCall, manual, agg, stopWait, app>>

ChildrenFinished(k) ==
    \A t \in Targets : child[k][t] \notin {"wait", "inflight"}

\* Mutant of GatherDone: gather without return_exceptions, the first exception
\* of a child ends the batch in the handler of ping_all_servers.
GatherFailFast(k) ==
    /\ pc[k] = "gather"
    /\ ~cancelReq[k]
    /\ IF \E t \in Targets : child[k][t] = "raised"
       THEN /\ iterErr' = [iterErr EXCEPT ![k] = "swallowed"]
            /\ pc' = [pc EXCEPT ![k] = "sleep"]
            /\ db' = [db EXCEPT ![k] = EmptySession]
            /\ child' = [child EXCEPT ![k] = NoChildren]
            /\ sem' = [sem EXCEPT ![k] = 0]
       ELSE /\ \A t \in Targets : child[k][t] \notin {"wait", "inflight"}
            /\ pc' = [pc EXCEPT ![k] = "commit"]
            /\ UNCHANGED <<child, sem, db, iterErr>>
    /\ log' = ""
    /\ UNCHANGED <<running, ping_task, cancelReq, batchOf, servers,
                   dropped, nextBatch, store, directory, net, limiter, http_client, lastCall, manual, agg, stopWait, app>>

\* gather(*tasks, return_exceptions=True) returns once every child has ended,
\* whether it returned or raised; the task then awaits db.commit().
GatherDone(k) ==
    /\ pc[k] = "gather"
    /\ ~cancelReq[k]
    /\ ChildrenFinished(k)
    /\ pc' = [pc EXCEPT ![k] = "commit"]
    /\ log' = ""
    /\ UNCHANGED <<running, ping_task, cancelReq, batchOf, servers, child, sem, db,
                   iterErr, dropped, nextBatch, store, directory, net, limiter, http_client, lastCall, manual, agg, stopWait, app>>

\* Mutant of CommitOk: one row per server, the new record replaces the one
\* the server had.
CommitOkUpsert(k) ==
    /\ pc[k] = "commit"
    /\ ~cancelReq[k]
    /\ \A r \in SessionRows(k) : r.server_id \in directory
    /\ store' = {r \in store : \A n \in SessionRows(k) : n.server_id # r.server_id}
                    \cup SessionRows(k)
    /\ pc' = [pc EXCEPT ![k] = "sleep"]
    /\ iterErr' = [iterErr EXCEPT ![k] = "none"]
    /\ CloseSession(k)
    /\ log' = ""
    /\ UNCHANGED <<running, ping_task, cancelReq, batchOf, servers,
                   dropped, nextBatch, directory, net, limiter, http_client, lastCall, manual, agg, stopWait, app>>

\* db.commit() succeeds: every record of the session becomes a row. The INSERT
\* of a record whose server was deleted meanwhile violates the foreign key of
\* uptime_records, so the commit then fails.
CommitOk(k) ==
    /\ pc[k] = "commit"
    /\ ~cancelReq[k]
    /\ \A r \in SessionRows(k) : r.server_id \in directory
    /\ store' = store \cup SessionRows(k)
    /\ pc' = [pc EXCEPT ![k] = "sleep"]
    /\ iterErr' = [iterErr EXCEPT ![k] = "none"]
    /\ CloseSession(k)
    /\ log' = ""
    /\ UNCHANGED <<running, ping_task, cancelReq, batchOf, servers,
                   dropped, nextBatch, directory, net, limiter, http_client, lastCall, manual, agg, stopWait, app>>

\* db.commit() raises: nothing is written.
CommitFail(k) ==
    /\ pc[k] = "commit"
    /\ ~cancelReq[k]
    /\ \E rollbackOk \in BOOLEAN : IterationFails(k, rollbackOk)
    /\ log' = ""
    /\ UNCHANGED <<running, ping_task, cancelReq, batchOf, servers, dropped,
                   nextBatch, store, directory, net, limiter, http_client, lastCall, manual, agg, stopWait, app>>

\* Mutant of CancelDeliver: closing the session writes what it holds.
CancelDeliverCommits(k) ==
    /\ cancelReq[k]
    /\ pc[k] \in {"new", "fetch", "gather", "commit", "sleep"}
    /\ pc[k] = "new" => ~StopWakeupQueued
    /\ pc[k] = "gather" => ChildrenFinished(k)
    /\ store' = store \cup SessionRows(k)
    /\ dropped' = [dropped EXCEPT ![k] = IF pc[k] = "commit" THEN 0 ELSE SessionSize(k)]
    /\ pc' = [pc EXCEPT ![k] = "done"]
    /\ CloseSession(k)
    /\ log' = ""
    /\ UNCHANGED <<running, ping_task, cancelReq, batchOf, servers, iterErr, nextBatch,
                   directory, net, limiter, http_client, lastCall, manual, agg, stopWait, app>>

\* CancelledError is raised in the loop task at its await; no handler of
\* ping_all_servers or ping_loop catches it, the session is closed and the
\* task ends. At gather this happens once every child has ended. A commit the
\* task was awaiting may or may not have been applied by the database.
CancelDeliver(k) ==
    /\ cancelReq[k]
    /\ pc[k] \in {"new", "fetch", "gather", "commit", "sleep"}
    /\ pc[k] = "new" => ~StopWakeupQueued
    /\ pc[k] = "gather" => ChildrenFinished(k)
    /\ \E applied \in BOOLEAN :
          /\ applied => pc[k] = "commit" /\ \A r \in SessionRows(k) : r.server_id \in directory
          /\ store' = IF applied THEN store \cup SessionRows(k) ELSE store
          /\ dropped' = [dropped EXCEPT ![k] = IF applied THEN 0 ELSE SessionSize(k)]
    /\ pc' = [pc EXCEPT ![k] = "done"]
    /\ CloseSession(k)
    /\ log' = ""
    /\ UNCHANGED <<running, ping_task, cancelReq, batchOf, servers, iterErr, nextBatch,
                   directory, net, limiter, http_client, lastCall, manual, agg, stopWait, app>>

(***************************************************************************)
(* Specifications                                                          *)
(***************************************************************************)

LoopStep(k) ==
    \/ LoopCheck(k)
    \/ FetchDone(k)
    \/ FetchFail(k)
    \/ \E t \in Targets : Acquire(k, t)
    \/ \E t \in Targets : ProbeFinish(k, t)
    \/ GatherDone(k)
    \/ CommitOk(k)
    \/ CommitFail(k)

CancelStep(k) ==
    \/ \E t \in Targets : ChildCancel(k, t)
    \/ CancelDeliver(k)

\* The scheduler's functions called by any coroutine at any time.
Next ==
    \/ CallStart
    \/ CallStop
    \/ \E k \in Tasks : StopReturn(k)
    \/ \E k \in Tasks : LoopStep(k)
    \/ \E k \in Tasks : CancelStep(k)

Spec == Init /\ [][Next]_vars

\* One coroutine calls the scheduler's functions one after the other: it calls
\* the next one only after stop_ping_scheduler() has returned.
SoloStart == Sum(stopWait, Tasks) = 0 /\ start_ping_scheduler /\ UNCHANGED <<app, http_client>>

SoloStop == Sum(stopWait, Tasks) = 0 /\ stop_ping_scheduler /\ UNCHANGED <<app, http_client>>

NextSolo ==
    \/ SoloStart
    \/ SoloStop
    \/ \E k \in Tasks : StopReturn(k)
    \/ \E k \in Tasks : LoopStep(k)
    \/ \E k \in Tasks : CancelStep(k)

SoloSpec == Init /\ [][NextSolo]_vars

\* The application: the scheduler is started at startup and stopped at shutdown.
NextApp ==
    \/ LifespanStartup
    \/ LifespanShutdown
    \/ \E k \in Tasks : LifespanStopped(k)
    \/ LifespanClientClosed
    \/ LifespanDbClosed
    \/ \E k \in Tasks : LoopStep(k)
    \/ \E k \in Tasks : CancelStep(k)

AppSpec == InitApp /\ [][NextApp]_vars

\* The running application over the large directory.
NextGate ==
    \/ LifespanStartup
    \/ \E k \in Tasks : LoopStep(k)

GateSpec == InitGate /\ [][NextGate]_vars

\* The large directory with probes that all end, with a response or with an
\* exception, and a database that works: the session accepts every record and
\* no query or commit fails.
InitGateLive ==
    /\ InitCommon
    /\ agg = NoAgg
    /\ limiter = NoLimiter
    /\ app = "startup"
    /\ http_client = NoClient
    /\ directory = 1..GateTargets
    /\ net \in {[t \in Targets |-> r] : r \in {"ok", "fault"}}

GateStep(k) ==
    \/ LoopCheck(k)
    \/ FetchDone(k)
    \/ \E t \in Targets : Acquire(k, t)
    \/ \E t \in Targets : ProbeFinish(k, t)
    \/ GatherDone(k)
    \/ CommitOk(k)

NextGateLive ==
    \/ LifespanStartup
    \/ \E k \in Tasks : GateStep(k)

\* The event loop runs every task that is ready, and every probe ends (its
\* request is bounded by the timeout).
GateLiveSpec ==
    /\ InitGateLive
    /\ [][NextGateLive]_vars
    /\ WF_vars(\E k \in Tasks : GateStep(k))

\* The event loop runs every task that is ready: a sleep, a query, a probe
\* (bounded by its timeout) and the delivery of a cancellation all end.
FairAppSpec ==
    /\ InitAppUniform
    /\ [][NextApp]_vars
    /\ \A k \in Tasks : WF_vars(LoopStep(k)) /\ WF_vars(CancelStep(k))

TypeOK ==
    /\ running \in BOOLEAN
    /\ ping_task \in 0..MaxTasks
    /\ pc \in [Tasks -> {"none", "new", "fetch", "gather", "commit", "sleep", "done"}]
    /\ \A k \in Tasks : sem[k] \in 0..SemLimit
    /\ stopWait \in [Tasks -> 0..NumCallers]
    /\ log \in {"", "started", "already_running", "stopped"}
    /\ app \in {"startup", "serving", "stopping", "closing_client", "closing_db", "closed"}
    /\ http_client.handle \in 0..MaxClients
    /\ lastCall \in {"", "start", "stop"}


(***************************************************************************)
(* ping_server_now and delete_server                                       *)
(***************************************************************************)

MaxManual == 2

\* The ids a request may name: the servers and one id that never existed.
ServerIds == 1..(NumTargets + 1)

\* What the requests of ping_server_now are answered with.
ManualResponses == Answers \cup TransportFailures

\* The row the session of ping_server_now holds after db.add(record).
ManualRow == [batch |-> 0 - manual.calls, server_id |-> manual.server_id, n |-> 1,
              status |-> manual.outcome.status,
              response_time_ms |-> manual.outcome.response_time_ms]

\* ping_server_now(server_id) up to its first network await: get_server, and
\* `return None` when there is no such server; otherwise ping_server creates
\* the HTTP client when the handle is None, and sends its request.
ping_server_now(server_id) ==
    /\ manual.pc = "idle"
    /\ manual.calls < MaxManual
    /\ manual' = [NoManual EXCEPT
                     !.calls = manual.calls + 1,
                     !.server_id = server_id,
                     !.pc = IF server_id \in directory THEN "probe" ELSE "idle",
                     !.result = IF server_id \in directory THEN "" ELSE "None"]
    /\ CanCreate(http_client)
    /\ http_client' = IF server_id \in directory THEN init_http_client(http_client)
                                                  ELSE http_client
    /\ UNCHANGED <<running, ping_task, taskVars, store, directory, net, limiter, lastCall, agg,
                   stopWait, log, app>>

\* await ping_server(...): the request is answered with resp.
NowProbe(resp) ==
    /\ manual.pc = "probe"
    /\ manual' = [manual EXCEPT
                     !.probes = manual.probes + 1,
                     !.resp = resp,
                     !.outcome = ping_server(resp),
                     !.pc = IF ping_server(resp).raises THEN "idle" ELSE "commit",
                     !.result = IF ping_server(resp).raises THEN "raised" ELSE ""]
    /\ UNCHANGED <<running, ping_task, taskVars, store, directory, net, limiter, http_client, lastCall, agg,
                   stopWait, log, app>>

\* Mutant of NowCommit: ping_server_now adds its record to a session it shares
\* with the batches, so its commit writes their records too.
NowCommitSharedSession ==
    /\ manual.pc = "commit"
    /\ IF manual.server_id \in directory
       THEN /\ store' = store \cup {ManualRow} \cup UNION {SessionRows(k) : k \in Tasks}
            /\ manual' = [manual EXCEPT !.pc = "refresh"]
       ELSE /\ store' = store
            /\ manual' = [manual EXCEPT !.pc = "idle", !.result = "raised"]
    /\ UNCHANGED <<running, ping_task, taskVars, directory, net, limiter, http_client, lastCall, agg,
                   stopWait, log, app>>

\* db.add(record); await db.commit(): the INSERT violates the foreign key of
\* uptime_records when the server was deleted meanwhile.
NowCommit ==
    /\ manual.pc = "commit"
    /\ IF manual.server_id \in directory
       THEN /\ store' = store \cup {ManualRow}
            /\ manual' = [manual EXCEPT !.pc = "refresh"]
       ELSE /\ store' = store
            /\ manual' = [manual EXCEPT !.pc = "idle", !.result = "raised"]
    /\ UNCHANGED <<running, ping_task, taskVars, directory, net, limiter, http_client, lastCall, agg,
                   stopWait, log, app>>

\* await db.refresh(record); return record: the SELECT finds no row when the
\* record was deleted meanwhile.
NowRefresh ==
    /\ manual.pc = "refresh"
    /\ manual' = [manual EXCEPT
                     !.pc = "idle",
                     !.result = IF ManualRow \in store THEN "record" ELSE "raised"]
    /\ UNCHANGED <<running, ping_task, taskVars, store, directory, net, limiter, http_client, lastCall, agg,
                   stopWait, log, app>>

\* delete_server(server_id) of a request whose transaction commits: the server
\* row goes, and its uptime_records with it (cascade).
delete_server(server_id) ==
    /\ server_id \in directory
    /\ directory' = directory \ {server_id}
    /\ store' = {r \in store : r.server_id # server_id}
    /\ UNCHANGED <<running, ping_task, taskVars, net, limiter, http_client, lastCall, manual, agg,
                   stopWait, log, app>>

\* The requests of the API served while no scheduler runs.
InitManual ==
    /\ InitCommon
    /\ agg = NoAgg
    /\ limiter = NoLimiter
    /\ app = "serving"
    /\ http_client = init_http_client(NoClient)
    /\ directory = 1..NumTargets
    /\ net = [t \in Targets |-> "ok"]

NextManual ==
    \/ \E id \in ServerIds : ping_server_now(id)
    \/ \E resp \in ManualResponses : NowProbe(resp)
    \/ NowCommit
    \/ NowRefresh
    \/ \E id \in ServerIds : delete_server(id)

ManualSpec == InitManual /\ [][NextManual]_vars

(***************************************************************************)
(* The scheduler while servers are created and deleted                     *)
(***************************************************************************)

\* The ids something still refers to: servers, committed records, the
\* bounded_ping tasks of a batch under way.
IdsInUse ==
    directory \cup {r.server_id : r \in store}
              \cup {t \in Targets : \E k \in Tasks : child[k][t] # "none"}

\* create_server of a request whose transaction commits: a row with a new id.
create_server(server_id) ==
    /\ server_id \notin IdsInUse
    /\ directory' = directory \cup {server_id}
    /\ UNCHANGED <<running, ping_task, taskVars, store, net, limiter, http_client, lastCall, manual, agg,
                   stopWait, log, app>>

\* The running application over a directory that starts with any of its
\* servers, the empty one included; every target answers the same way and the
\* session accepts every record.
InitDirectory ==
    /\ InitCommon
    /\ agg = NoAgg
    /\ limiter = NoLimiter
    /\ app = "startup"
    /\ http_client = NoClient
    /\ directory \in SUBSET (1..NumTargets)
    /\ net \in {[t \in Targets |-> r] : r \in {"ok", "timeout", "fault"}}

NextDirectory ==
    \/ LifespanStartup
    \/ \E k \in Tasks : LoopStep(k)
    \/ \E id \in 1..NumTargets : create_server(id)
    \/ \E id \in 1..NumTargets : delete_server(id)

DirectorySpec == InitDirectory /\ [][NextDirectory]_vars

(***************************************************************************)
(* Aggregation: _calculate_bars, _calculate_bars_bulk                      *)
(*                                                                         *)
(* Time is counted in ticks. Numbers that Python holds as floats are kept  *)
(* exact, as fractions [num, den]; round(x, n) gives the integer           *)
(* x * 10^n rounded half to even. An optional value is <<>> (None) or <<v>>.*)
(***************************************************************************)

TicksPerHour == 2
HoursPerDay == 2
MaxCount == 2
MaxRecords == 2
MaxChecks == 4

\* avg_latency >= 1000
DegradedMs == 1000

\* timedelta(hours=1), timedelta(days=1)
timedelta(resolution) ==
    IF resolution = "day" THEN HoursPerDay * TicksPerHour ELSE TicksPerHour

\* func.date_trunc(trunc_interval, UptimeRecord.timestamp), session time zone UTC
date_trunc(trunc_interval, timestamp) ==
    timestamp - (timestamp % timedelta(trunc_interval))

\* bucket.date() for days, bucket.replace(minute=0, second=0, microsecond=0)
\* for hours; also now.date() and now.replace(...)
floor_to(resolution, t) == t - (t % timedelta(resolution))

RECURSIVE Pow10(_)
Pow10(n) == IF n = 0 THEN 1 ELSE 10 * Pow10(n - 1)

\* round(x, ndigits)
round(x, ndigits) ==
    LET n == x.num * Pow10(ndigits)
        q == n \div x.den
        rem == n % x.den
    IN  IF 2 * rem > x.den \/ (2 * rem = x.den /\ q % 2 = 1) THEN q + 1 ELSE q

\* The number of rows of the table `rows` that are one of the rows G.
CountRows(rows, G) == Sum([r \in G |-> CopiesIn(r, rows)], G)

\* One row of the GROUP BY query over the rows G: count(*), the two
\* sum(case ...) and avg(response_time_ms), which skips NULL and is NULL when
\* no row has a value.
GroupRow(rows, G) ==
    LET T == {r \in G : r.response_time_ms # <<>>}
    IN  [total |-> CountRows(rows, G),
         up_count |-> CountRows(rows, {r \in G : r.status = "UP"}),
         down_count |-> CountRows(rows, {r \in G : r.status = "DOWN"}),
         avg_latency |->
             IF T = {} THEN <<>>
             ELSE <<[num |-> Sum([r \in T |-> CopiesIn(r, rows) * r.response_time_ms[1]], T),
                     den |-> CountRows(rows, T)]>>]

\* row.avg_latency or 0
OrZero(avg) == IF avg = <<>> THEN [num |-> 0, den |-> 1] ELSE avg[1]

\* {"total": 0, "up": 0, "down": 0, "avg_latency": 0}
NoData == [total |-> 0, up |-> 0, down |-> 0, avg_latency |-> [num |-> 0, den |-> 1]]

\* grouped_data of _calculate_bars: the rows of the query by their key.
grouped_data(rows, server_id, now, count, resolution) ==
    LET since == now - count * timedelta(resolution)
        S == {r \in BagToSet(rows) : r.server_id = server_id /\ r.timestamp >= since}
        buckets == {date_trunc(resolution, r.timestamp) : r \in S}
    IN  [key \in {floor_to(resolution, b) : b \in buckets} |->
           LET b == CHOOSE c \in buckets : floor_to(resolution, c) = key
               row == GroupRow(rows, {r \in S : date_trunc(resolution, r.timestamp) = b})
           IN  [total |-> row.total, up |-> row.up_count, down |-> row.down_count,
                avg_latency |-> OrZero(row.avg_latency)]]

\* Mutant of BarOf: a bucket at exactly 50 percent is down, one at exactly
\* 1000 ms is up.
BarOf_ShiftedThresholds(data, current) ==
    LET total == data.total
        uptime_pct == IF total > 0 THEN [num |-> data.up * 100, den |-> total]
                      ELSE [num |-> 0, den |-> 1]
        avg_latency == data.avg_latency
        status == IF total = 0 THEN "unknown"
                  ELSE IF uptime_pct.num <= 50 * uptime_pct.den THEN "down"
                  ELSE IF uptime_pct.num < 100 * uptime_pct.den THEN "partial"
                  ELSE IF avg_latency.num > DegradedMs * avg_latency.den THEN "degraded"
                  ELSE "up"
    IN  [date |-> current,
         status |-> status,
         uptime_percentage |-> round(uptime_pct, 2),
         checks |-> total,
         avg_response_time_ms |-> IF total > 0 THEN <<round(avg_latency, 2)>> ELSE <<>>]

\* Mutant of BarOf: the share of UP checks is not scaled to a percentage.
BarOf_Fraction(data, current) ==
    LET total == data.total
        uptime_pct == IF total > 0 THEN [num |-> data.up, den |-> total]
                      ELSE [num |-> 0, den |-> 1]
        avg_latency == data.avg_latency
        status == IF total = 0 THEN "unknown"
                  ELSE IF uptime_pct.num * 100 < 50 * uptime_pct.den THEN "down"
                  ELSE IF uptime_pct.num * 100 < 100 * uptime_pct.den THEN "partial"
                  ELSE IF avg_latency.num >= DegradedMs * avg_latency.den THEN "degraded"
                  ELSE "up"
    IN  [date |-> current,
         status |-> status,
         uptime_percentage |-> round(uptime_pct, 2),
         checks |-> total,
         avg_response_time_ms |-> IF total > 0 THEN <<round(avg_latency, 2)>> ELSE <<>>]

\* One turn of the loop of _calculate_bars: the bar for the bucket `current`.
BarOf(data, current) ==
    LET total == data.total
        uptime_pct == IF total > 0 THEN [num |-> data.up * 100, den |-> total]
                      ELSE [num |-> 0, den |-> 1]
        avg_latency == data.avg_latency
        status == IF total = 0 THEN "unknown"
                  ELSE IF uptime_pct.num < 50 * uptime_pct.den THEN "down"
                  ELSE IF uptime_pct.num < 100 * uptime_pct.den THEN "partial"
                  ELSE IF avg_latency.num >= DegradedMs * avg_latency.den THEN "degraded"
                  ELSE "up"
    IN  [date |-> current,
         status |-> status,
         uptime_percentage |-> round(uptime_pct, 2),
         checks |-> total,
         avg_response_time_ms |-> IF total > 0 THEN <<round(avg_latency, 2)>> ELSE <<>>]

\* Mutant of _calculate_bars: one bar more than asked for when now is on a
\* bucket boundary.
calculate_bars_ExtraBar(rows, server_id, now, count, resolution) ==
    LET g == grouped_data(rows, server_id, now, count, resolution)
        first == floor_to(resolution, now - (count - 1) * timedelta(resolution))
        n == IF now = floor_to(resolution, now) THEN count + 1 ELSE count
    IN  [i \in 1..n |->
           LET current == first + (i - 1) * timedelta(resolution)
           IN  BarOf(IF current \in DOMAIN g THEN g[current] ELSE NoData, current)]

\* Mutant of _calculate_bars: the first bucket starts count - 1 units before
\* now, without truncation.
calculate_bars_Unaligned(rows, server_id, now, count, resolution) ==
    LET g == grouped_data(rows, server_id, now, count, resolution)
        first == now - (count - 1) * timedelta(resolution)
    IN  [i \in 1..count |->
           LET current == first + (i - 1) * timedelta(resolution)
           IN  BarOf(IF current \in DOMAIN g THEN g[current] ELSE NoData, current)]

\* _calculate_bars(rows, server_id, now, count, resolution): the list of bars.
calculate_bars(rows, server_id, now, count, resolution) ==
    LET g == grouped_data(rows, server_id, now, count, resolution)
        first == floor_to(resolution, now - (count - 1) * timedelta(resolution))
    IN  [i \in 1..count |->
           LET current == first + (i - 1) * timedelta(resolution)
           IN  BarOf(IF current \in DOMAIN g THEN g[current] ELSE NoData, current)]

\* The elements of a list.
Range(list) == {list[i] : i \in DOMAIN list}

\* server_groups of _calculate_bars_bulk: server_id -> key -> data, for the
\* servers the query returned rows for.
server_groups(rows, server_ids, now, count, resolution) ==
    LET since == now - count * timedelta(resolution)
        S == {r \in BagToSet(rows) : r.server_id \in Range(server_ids) /\ r.timestamp >= since}
        groups == {<<r.server_id, date_trunc(resolution, r.timestamp)>> : r \in S}
    IN  [sid \in {g[1] : g \in groups} |->
           [key \in {floor_to(resolution, g[2]) : g \in {h \in groups : h[1] = sid}} |->
              LET b == CHOOSE c \in {h[2] : h \in {h \in groups : h[1] = sid}} :
                           floor_to(resolution, c) = key
                  row == GroupRow(rows, {r \in S : /\ r.server_id = sid
                                                 /\ date_trunc(resolution, r.timestamp) = b})
              IN  [total |-> row.total, up |-> row.up_count, down |-> row.down_count,
                   avg_latency |-> OrZero(row.avg_latency)]]]

\* One turn of the inner loop of _calculate_bars_bulk.
BulkBarOf(data, current) ==
    LET total == data.total
        uptime_pct == IF total > 0 THEN [num |-> data.up * 100, den |-> total]
                      ELSE [num |-> 0, den |-> 1]
        avg_latency == data.avg_latency
        status == IF total = 0 THEN "unknown"
                  ELSE IF uptime_pct.num < 50 * uptime_pct.den THEN "down"
                  ELSE IF uptime_pct.num < 100 * uptime_pct.den THEN "partial"
                  ELSE IF avg_latency.num >= DegradedMs * avg_latency.den THEN "degraded"
                  ELSE "up"
    IN  [date |-> current,
         status |-> status,
         uptime_percentage |-> round(uptime_pct, 2),
         checks |-> total,
         avg_response_time_ms |-> IF total > 0 THEN <<round(avg_latency, 2)>> ELSE <<>>]

\* Mutant of _calculate_bars_bulk: the rows are not kept apart by server.
calculate_bars_bulk_Merged(rows, server_ids, now, count, resolution) ==
    LET since == now - count * timedelta(resolution)
        S == {r \in BagToSet(rows) : r.server_id \in Range(server_ids) /\ r.timestamp >= since}
        first == floor_to(resolution, now - (count - 1) * timedelta(resolution))
    IN  [sid \in Range(server_ids) |->
           [i \in 1..count |->
              LET current == first + (i - 1) * timedelta(resolution)
                  G == {r \in S : date_trunc(resolution, r.timestamp) = current}
                  row == GroupRow(rows, G)
              IN  BulkBarOf(IF G = {} THEN NoData
                            ELSE [total |-> row.total, up |-> row.up_count,
                                  down |-> row.down_count,
                                  avg_latency |-> OrZero(row.avg_latency)],
                            current)]]

\* Mutant of _calculate_bars_bulk: a server the query returned no row for gets
\* an empty list of bars.
calculate_bars_bulk_SkipsEmpty(rows, server_ids, now, count, resolution) ==
    LET groups == server_groups(rows, server_ids, now, count, resolution)
        start_current == floor_to(resolution, now - (count - 1) * timedelta(resolution))
    IN  [sid \in Range(server_ids) |->
           IF sid \notin DOMAIN groups THEN <<>>
           ELSE [i \in 1..count |->
                   LET current == start_current + (i - 1) * timedelta(resolution)
                   IN  BulkBarOf(IF current \in DOMAIN groups[sid]
                                 THEN groups[sid][current] ELSE NoData, current)]]

\* _calculate_bars_bulk(rows, server_ids, now, count, resolution): server_id ->
\* list of bars ({} for an empty list of ids).
calculate_bars_bulk(rows, server_ids, now, count, resolution) ==
    LET groups == server_groups(rows, server_ids, now, count, resolution)
        start_current == floor_to(resolution, now - (count - 1) * timedelta(resolution))
    IN  [sid \in Range(server_ids) |->
           LET server_data == IF sid \in DOMAIN groups THEN groups[sid] ELSE <<>>
           IN  [i \in 1..count |->
                  LET current == start_current + (i - 1) * timedelta(resolution)
                  IN  BulkBarOf(IF current \in DOMAIN server_data
                                THEN server_data[current] ELSE NoData, current)]]

\* Mutant of the overall percentage: the weighted sum is divided by the
\* number of bars that have checks, not by the number of checks.
weighted_uptime_PerBar(bars) ==
    LET I == DOMAIN bars
        total_checks == Sum([i \in I |-> bars[i].checks], I)
    IN  IF total_checks > 0
        THEN round([num |-> Sum([i \in I |-> bars[i].uptime_percentage * bars[i].checks], I),
                    den |-> 100 * Cardinality({i \in I : bars[i].checks > 0})], 3)
        ELSE 0

\* Mutant of weighted_uptime: the mean of the percentages of the buckets that
\* have checks.
weighted_uptime_Unweighted(bars) ==
    LET I == {i \in DOMAIN bars : bars[i].checks > 0}
    IN  IF I # {}
        THEN round([num |-> Sum([i \in I |-> bars[i].uptime_percentage], I),
                    den |-> 100 * Cardinality(I)], 3)
        ELSE 0

\* get_servers_with_uptime_bars: "uptime_percentage" of one server, that is
\* round(weighted_uptime, 3), from the bars of the server.
weighted_uptime(bars) ==
    LET I == DOMAIN bars
        total_checks == Sum([i \in I |-> bars[i].checks], I)
    IN  IF total_checks > 0
        THEN round([num |-> Sum([i \in I |-> bars[i].uptime_percentage * bars[i].checks], I),
                    den |-> 100 * total_checks], 3)
        ELSE 0

(***************************************************************************)
(* Calls of the aggregator over a table of records                         *)
(***************************************************************************)

\* Server 1 and 2 have records, server 3 never has.
AggIds == 1..3

\* The lists of ids _calculate_bars_bulk is called with.
IdLists == {<<>>, <<1, 2>>, <<3, 2, 1>>}

Resolutions == {"hour", "day"}

\* The start of a day, late enough for every window to begin after tick 0.
Epoch == (MaxCount + 1) * timedelta("day")

\* `now` of a call: the start of a day, every tick of its first hour, and the
\* start of its second hour.
NowValues == Epoch..(Epoch + timedelta("hour"))

\* since of the call: now - timedelta(days=count) or now - timedelta(hours=count)
Since == agg.now - agg.count * timedelta(agg.resolution)

\* The starts of the buckets a call for agg.count buckets is to return.
BucketStarts ==
    {floor_to(agg.resolution, agg.now) - j * timedelta(agg.resolution) :
        j \in 0..(agg.count - 1)}

\* The instants at which the treatment of a record can change: the start and
\* the end of the window, and the bounds of the returned buckets.
Edges ==
    {Since, agg.now, floor_to(agg.resolution, agg.now) + timedelta(agg.resolution)}
        \cup BucketStarts

\* The timestamps of the records: each edge, the tick before and the tick after.
WindowTimes == {e + d : e \in Edges, d \in {0 - 1, 0, 1}}

\* An uptime_records row (without its id).
Record(server_id, timestamp, status, response_time_ms) ==
    [server_id |-> server_id, timestamp |-> timestamp, status |-> status,
     response_time_ms |-> response_time_ms]

\* Records at any time, all of them UP in 500 ms: of server 1 anywhere around
\* the window, of server 2 at the start of the window and in the bucket of now.
BucketRecords ==
    {Record(1, t, "UP", <<500>>) : t \in WindowTimes}
        \cup {Record(2, t, "UP", <<500>>) : t \in {Since, floor_to(agg.resolution, agg.now)}}

\* What a probe can have recorded.
Outcomes ==
    {[status |-> "UP", response_time_ms |-> <<ms>>] : ms \in {500, 1000, 1500}}
        \cup {[status |-> "DOWN", response_time_ms |-> <<500>>],
              [status |-> "DOWN", response_time_ms |-> <<>>]}

\* Records of server 1 with any outcome, at the starts of the buckets.
TierRecords ==
    {Record(1, t, o.status, o.response_time_ms) : t \in BucketStarts, o \in Outcomes}

\* A call that has not run yet, over an empty table.
NewCall(now, count, resolution) ==
    [pc |-> "open", records |-> EmptyBag, now |-> now, count |-> count,
     resolution |-> resolution, clock |-> now, server_ids |-> <<>>,
     bars |-> <<>>, bulk |-> <<>>, overall |-> <<>>]

aggFrame == <<running, ping_task, taskVars, store, directory, net, limiter, http_client, lastCall, manual,
              stopWait, log, app>>

\* A record with timestamp r.timestamp is in uptime_records when the query runs.
InsertRecord(r) ==
    /\ agg.pc = "open"
    /\ BagCardinality(agg.records) < MaxRecords
    /\ agg' = [agg EXCEPT !.records = @ (+) SetToBag({r})]
    /\ UNCHANGED aggFrame

\* The same, for the tables the tiers are checked on.
InsertCheck(r) ==
    /\ agg.pc = "open"
    /\ BagCardinality(agg.records) < MaxChecks
    /\ agg' = [agg EXCEPT !.records = @ (+) SetToBag({r})]
    /\ UNCHANGED aggFrame

\* _calculate_bars for every server, _calculate_bars_bulk for the list
\* server_ids and the overall percentages computed from its result, all with
\* the same now; the clock has advanced by `late` when the bars are built.
CalculateBars(server_ids, late) ==
    /\ agg.pc = "open"
    /\ LET bulk == calculate_bars_bulk(agg.records, server_ids, agg.now, agg.count,
                                       agg.resolution)
       IN  agg' = [agg EXCEPT
                     !.pc = "done",
                     !.clock = agg.now + late,
                     !.server_ids = server_ids,
                     !.bars = [sid \in AggIds |->
                                 calculate_bars(agg.records, sid, agg.now, agg.count,
                                                agg.resolution)],
                     !.bulk = bulk,
                     !.overall = [sid \in Range(server_ids) |-> weighted_uptime(bulk[sid])]]
    /\ UNCHANGED aggFrame

InitAggCommon ==
    /\ InitCommon
    /\ limiter = NoLimiter
    /\ app = "serving"
    /\ http_client = init_http_client(NoClient)
    /\ directory = 1..NumTargets
    /\ net = [t \in Targets |-> "ok"]

\* Calls with every now, count and resolution.
InitBuckets ==
    /\ InitAggCommon
    /\ agg \in {NewCall(now, count, resolution) :
                  now \in NowValues, count \in 1..MaxCount, resolution \in Resolutions}

NextBuckets ==
    \/ \E r \in BucketRecords : InsertRecord(r)
    \/ \E server_ids \in IdLists, late \in {0, timedelta(agg.resolution)} :
          CalculateBars(server_ids, late)

BucketSpec == InitBuckets /\ [][NextBuckets]_vars

\* Calls for MaxCount buckets at a now that is not on a bucket boundary.
InitTiers ==
    /\ InitAggCommon
    /\ agg \in {NewCall(Epoch + 1, MaxCount, resolution) : resolution \in Resolutions}

NextTiers ==
    \/ \E r \in TierRecords : InsertCheck(r)
    \/ CalculateBars(<<1>>, 0)

TierSpec == InitTiers /\ [][NextTiers]_vars

(***************************************************************************)
(* Properties                                                              *)
(***************************************************************************)

InFlight(k) == {t \in Targets : child[k][t] = "inflight"}

\* The record a target's answer is to be recorded as.
ExpectedRecord(resp) ==
    CASE resp = "ok"      -> [status |-> "UP",   response_time_ms |-> "ms"]
      [] resp = "err"     -> [status |-> "DOWN", response_time_ms |-> "ms"]
      [] OTHER            -> [status |-> "DOWN", response_time_ms |-> "None"]

ProbeFaultsOnly(k) == \A t \in servers[k] : net[t] # "recfault"

\* The batch of task k ended with a successful commit.
BatchCommitted(k) == pc[k] = "sleep" /\ iterErr[k] = "none" /\ servers[k] # {}

RowsFor(b, t) == {r \in store : r.batch = b /\ r.server_id = t}

\* C1: in every state of a batch, at most 10 probes are in flight, also when
\* the batch has more than 10 targets.
C1_InFlightAtMostTen ==
    \A k \in Tasks : Cardinality(InFlight(k)) <= 10

\* A batch of more than 10 targets with 10 probes in flight and one waiting
\* at the semaphore.
C1_Witness ==
    \E k \in Tasks :
        /\ Cardinality(servers[k]) > 10
        /\ Cardinality(InFlight(k)) = 10
        /\ \E t \in servers[k] : child[k][t] = "wait"

\* C2: a batch over K targets that is not cancelled holds exactly K records
\* when gather has returned, one per target, and commits exactly these; a
\* target whose probe raised is recorded as DOWN without response time.
C2_OneRecordPerTarget ==
    \A k \in Tasks :
        /\ (pc[k] = "commit" /\ ProbeFaultsOnly(k)) =>
              /\ SessionSize(k) = Cardinality(servers[k])
              /\ \A t \in Targets :
                    IF t \in servers[k]
                    THEN /\ Len(db[k][t]) = 1
                         /\ net[t] = "fault" =>
                              db[k][t][1] = [status |-> "DOWN", response_time_ms |-> "None"]
                    ELSE db[k][t] = <<>>
        /\ (BatchCommitted(k) /\ ProbeFaultsOnly(k)) =>
              /\ Cardinality(RowsOfBatch(batchOf[k])) = Cardinality(servers[k])
              /\ \A r \in RowsOfBatch(batchOf[k]) : r.server_id \in servers[k]
              /\ \A t \in servers[k] :
                    /\ Cardinality(RowsFor(batchOf[k], t)) = 1
                    /\ net[t] = "fault" =>
                          \A r \in RowsFor(batchOf[k], t) :
                              r.status = "DOWN" /\ r.response_time_ms = "None"

\* A committed batch in which the probe of one target raised and another
\* target answered.
C2_Witness ==
    \E k \in Tasks :
        /\ BatchCommitted(k)
        /\ ProbeFaultsOnly(k)
        /\ Cardinality(servers[k]) >= 2
        /\ \E t \in servers[k] : net[t] = "fault"
        /\ \E t \in servers[k] : net[t] = "ok"
        /\ Cardinality(RowsOfBatch(batchOf[k])) = Cardinality(servers[k])

\* C3: no row of a batch is in the store before the batch's commit; the rows
\* of a batch appear in one step, all records of the session together, taken
\* by the task that awaits the commit after every probe has ended; a failed
\* commit writes none of them.
C3_BatchCommitAtomic ==
    /\ [](\A k \in Tasks : InBatch(k) => RowsOfBatch(batchOf[k]) = {})
    /\ [][\A b \in 1..MaxBatches :
             RowsOfBatch(b)' # RowsOfBatch(b) =>
                \E k \in Tasks :
                    /\ batchOf[k] = b
                    /\ pc[k] = "commit"
                    /\ pc'[k] # "commit"
                    /\ \A t \in Targets : child[k][t] \notin {"wait", "inflight"}
                    /\ RowsOfBatch(b) = {}
                    /\ RowsOfBatch(b)' = SessionRows(k)]_vars
    /\ [][\A k \in Tasks :
             (pc[k] = "commit" /\ pc'[k] = "sleep" /\ iterErr'[k] # "none") =>
                 store' = store]_vars

\* A batch whose commit failed left no row, after an earlier batch committed
\* all of its rows.
C3_Witness ==
    \E k \in Tasks :
        /\ pc[k] = "sleep"
        /\ iterErr[k] # "none"
        /\ servers[k] # {}
        /\ RowsOfBatch(batchOf[k]) = {}
        /\ \E b \in 1..MaxBatches : Cardinality(RowsOfBatch(b)) = Cardinality(servers[k])

\* C4: an exception raised while probing or recording one target does not
\* end the batch: unless the batch is cancelled, gather is left only towards
\* the commit, and the session then holds for every target that could be
\* recorded its own record with its own outcome.
C4_FailureIsolated ==
    [][\A k \in Tasks :
          (pc[k] = "gather" /\ pc'[k] # "gather" /\ ~cancelReq[k]) =>
              /\ pc'[k] = "commit"
              /\ \A t \in servers[k] :
                    /\ child'[k][t] \in {"done", "raised"}
                    /\ net[t] # "recfault" => db'[k][t] = <<ExpectedRecord(net[t])>>]_vars

\* A batch at its commit in which recording one target raised and another
\* target has its UP record.
C4_Witness ==
    \E k \in Tasks :
        /\ pc[k] = "commit"
        /\ \E t \in servers[k] : child[k][t] = "raised"
        /\ \E t \in servers[k] :
              db[k][t] = <<[status |-> "UP", response_time_ms |-> "ms"]>>


AliveTasks == {k \in Tasks : Alive(k)}

\* The scheduler is RUNNING: a loop task is alive and the flag is set.
Running == running /\ AliveTasks # {}

\* The scheduler is STOPPED: no loop task is alive.
Stopped == AliveTasks = {}

\* The step is a call of start_ping_scheduler (it logs one of two messages).
StartStep == log' \in {"started", "already_running"}

\* C5: two batches of the scheduler are never in progress at the same time.
C5_BatchesNeverOverlap ==
    \A j, k \in Tasks : (InBatch(j) /\ InBatch(k)) => j = k

\* C6: start() while RUNNING creates no task and leaves the handle and the
\* flag unchanged; start() while STOPPED launches exactly one loop task.
C6_StartIdempotent ==
    [][StartStep =>
          /\ Running => (pc' = pc /\ ping_task' = ping_task /\ running' = running)
          /\ Stopped => \E k \in Tasks :
                           /\ pc[k] = "none"
                           /\ pc' = [pc EXCEPT ![k] = "new"]
                           /\ ping_task' = k
                           /\ running']_vars

\* C7: when start() is called right after stop() has returned, the scheduler
\* is RUNNING with exactly one loop task alive, the one the handle refers to.
C7_RestartGivesOneLoop ==
    [][(log = "stopped" /\ StartStep) =>
          /\ running'
          /\ ping_task' # 0
          /\ {k \in Tasks : pc'[k] \notin {"none", "done"}} = {ping_task'}]_vars

\* C8: when stop() returns the handle is cleared, no scheduled probe is in
\* flight and no scheduled batch is in progress.
C8_StopQuiesces ==
    log = "stopped" =>
        /\ ping_task = 0
        /\ \A k \in Tasks : InFlight(k) = {} /\ ~InBatch(k)

\* C9: a cancellation delivered to an iteration before its commit leaves the
\* store as it was: no record the session held is ever written.
C9_CancelledIterationWritesNothing ==
    /\ [][\A k \in Tasks :
             (cancelReq[k] /\ pc[k] \in {"fetch", "gather"} /\ pc'[k] = "done") =>
                 /\ store' = store
                 /\ RowsOfBatch(batchOf[k]) = {}]_vars
    /\ [](\A k \in Tasks :
             (pc[k] = "done" /\ dropped[k] > 0) => RowsOfBatch(batchOf[k]) = {})

\* An iteration cancelled with records in its session after an earlier batch
\* was committed: the earlier rows are there, none of the cancelled batch.
C9_Witness ==
    \E k \in Tasks :
        /\ pc[k] = "done"
        /\ dropped[k] > 0
        /\ RowsOfBatch(batchOf[k]) = {}
        /\ \E b \in 1..MaxBatches : b # batchOf[k] /\ RowsOfBatch(b) # {}

\* The bound on the number of batches is reached.
BatchesExhausted == nextBatch > MaxBatches

\* C10: an error of an iteration sends the loop to its sleep, the loop task
\* ends only by cancellation or by the cleared flag, and after a failed
\* iteration the loop starts another batch unless the scheduler is stopped.
C10_LoopSurvivesErrors ==
    /\ [][\A k \in Tasks :
             /\ (iterErr'[k] # iterErr[k] /\ iterErr'[k] # "none") => pc'[k] = "sleep"
             /\ (Alive(k) /\ pc'[k] = "done") =>
                   (cancelReq[k] \/ (~running /\ pc[k] \in {"new", "sleep"}))]_vars
    /\ \A k \in Tasks :
          (pc[k] = "sleep" /\ iterErr[k] # "none")
              ~> (pc[k] = "fetch" \/ ~running \/ BatchesExhausted)

\* A batch started by a loop whose previous iteration failed.
C10_Witness ==
    \E k \in Tasks : pc[k] = "fetch" /\ iterErr[k] # "none" /\ running /\ ~cancelReq[k]

\* C11: stop_ping_scheduler() called while the scheduler is STOPPED returns at
\* once without an error, cancels nothing and starts nothing, and leaves the
\* scheduler STOPPED with an empty task handle.
C11_StopWhenStoppedNoOp ==
    [][(Stopped /\ stop_ping_scheduler) =>
          /\ log' = "stopped"
          /\ cancelReq' = cancelReq
          /\ pc' = pc
          /\ stopWait' = stopWait
          /\ ping_task' = 0
          /\ ~running']_vars

\* stop_ping_scheduler() has returned and no loop task was ever created.
C11_Witness == log = "stopped" /\ NumCreated = 0 /\ ping_task = 0 /\ ~running

\* The request of the last probe of ping_server_now was answered.
Received == manual.resp \in Answers

\* C12: a response with status code < 400 gives UP with a response time, one
\* with status code >= 400 gives DOWN with a response time, a timeout or any
\* other transport failure gives DOWN without a response time; so UP always
\* has a response time, and a response time is present exactly when a
\* response was received.
C12_ProberClassification ==
    manual.resp # "" =>
        /\ (Received /\ status_code(manual.resp) < 400) =>
              (manual.outcome.status = "UP" /\ manual.outcome.response_time_ms = "ms")
        /\ (Received /\ status_code(manual.resp) >= 400) =>
              (manual.outcome.status = "DOWN" /\ manual.outcome.response_time_ms = "ms")
        /\ ~Received =>
              (manual.outcome.status = "DOWN" /\ manual.outcome.response_time_ms = "None")
        /\ manual.outcome.status = "UP" => manual.outcome.response_time_ms # "None"
        /\ manual.outcome.response_time_ms # "None" <=> Received

\* A response with status code 400 was classified.
C12_Witness ==
    /\ manual.resp = "http400"
    /\ manual.outcome.status = "DOWN"
    /\ manual.outcome.response_time_ms = "ms"

RowsOfCall == {r \in store : r.batch = 0 - manual.calls}

\* C14: ping_server_now for an id that is not in the directory returns None
\* without a probe or a record; for a server of the directory it ends by
\* returning the one record it committed, which carries the outcome of its
\* one probe.
C14_ManualProbe ==
    [][/\ (manual'.calls = manual.calls + 1 /\ manual'.server_id \notin directory) =>
             /\ manual'.result = "None"
             /\ manual'.probes = 0
             /\ store' = store
       /\ (manual.pc # "idle" /\ manual'.pc = "idle") =>
             /\ manual'.result = "record"
             /\ manual'.probes = 1
             /\ RowsOfCall' = {[batch |-> 0 - manual.calls,
                                server_id |-> manual.server_id, n |-> 1,
                                status |-> manual.outcome.status,
                                response_time_ms |-> manual.outcome.response_time_ms]}]_vars

\* The records of server sid in the table of the call.
RecordsOf(sid) == {r \in BagToSet(agg.records) : r.server_id = sid}

\* The number of rows of server sid with a timestamp in [from, to).
ChecksBetween(sid, from, to) ==
    CountRows(agg.records, {r \in RecordsOf(sid) : from <= r.timestamp /\ r.timestamp < to})

\* C15: _calculate_bars returns exactly `count` bars, whatever the records.
C15_ExactlyCountBuckets ==
    agg.pc = "done" =>
        \A sid \in AggIds :
            /\ DOMAIN agg.bars[sid] = 1..agg.count
            /\ Len(agg.bars[sid]) = agg.count

\* A call for days whose table holds a record older than the window; server 3
\* has no record at all.
C15_Witness ==
    /\ agg.pc = "done"
    /\ agg.resolution = "day"
    /\ \E r \in RecordsOf(1) : r.timestamp < Since
    /\ RecordsOf(3) = {}
    /\ Len(agg.bars[1]) = agg.count
    /\ Len(agg.bars[3]) = agg.count

\* C16: for every id of the list, the bars of _calculate_bars_bulk are those
\* of _calculate_bars for that id.
C16_BulkEqualsSingle ==
    agg.pc = "done" =>
        /\ DOMAIN agg.bulk = Range(agg.server_ids)
        /\ \A sid \in Range(agg.server_ids) : agg.bulk[sid] = agg.bars[sid]

\* A bulk call for servers 3, 2 and 1, where 1 and 2 have a record in the
\* same bucket and 3 has none.
C16_Witness ==
    /\ agg.pc = "done"
    /\ agg.server_ids = <<3, 2, 1>>
    /\ \E r1 \in RecordsOf(1), r2 \in RecordsOf(2) :
          /\ r1.timestamp >= Since
          /\ date_trunc(agg.resolution, r1.timestamp) = date_trunc(agg.resolution, r2.timestamp)
    /\ \E i \in 1..agg.count : agg.bulk[1][i].checks = 1 /\ agg.bulk[2][i].checks = 1

\* The UP rows of server sid with a timestamp in [from, to).
UpBetween(sid, from, to) ==
    CountRows(agg.records, {r \in RecordsOf(sid) :
                              from <= r.timestamp /\ r.timestamp < to /\ r.status = "UP"})

\* Sum and number of the response times of server sid in [from, to).
TimedBetween(sid, from, to) ==
    {r \in RecordsOf(sid) : from <= r.timestamp /\ r.timestamp < to /\ r.response_time_ms # <<>>}

LatencySum(sid, from, to) ==
    Sum([r \in TimedBetween(sid, from, to) |->
           CopiesIn(r, agg.records) * r.response_time_ms[1]], TimedBetween(sid, from, to))

\* The tier the rules give for `up` UP checks out of `total`, with response
\* times that sum to latSum over latCount checks.
TierByRule(total, up, latSum, latCount) ==
    IF total = 0 THEN "unknown"
    ELSE IF 2 * up < total THEN "down"
    ELSE IF up < total THEN "partial"
    ELSE IF latSum >= 1000 * latCount /\ latCount > 0 THEN "degraded"
    ELSE "up"

\* C17: the tier of every bar is the one the first matching rule gives for
\* the checks of its bucket, and it is one of the five tiers.
C17_TierRule ==
    agg.pc = "done" =>
        \A i \in 1..Len(agg.bars[1]) :
            LET from == agg.bars[1][i].date
                to == from + timedelta(agg.resolution)
            IN  /\ agg.bars[1][i].status \in {"unknown", "down", "partial", "degraded", "up"}
                /\ agg.bars[1][i].status =
                      TierByRule(ChecksBetween(1, from, to), UpBetween(1, from, to),
                                 LatencySum(1, from, to),
                                 CountRows(agg.records, TimedBetween(1, from, to)))

\* One bucket at exactly 50 percent (partial) and one at 100 percent with an
\* average of exactly 1000 ms (degraded).
C17_Witness ==
    /\ agg.pc = "done"
    /\ \E i \in 1..Len(agg.bars[1]) :
          /\ agg.bars[1][i].uptime_percentage = 5000
          /\ agg.bars[1][i].status = "partial"
    /\ \E i \in 1..Len(agg.bars[1]) :
          /\ agg.bars[1][i].uptime_percentage = 10000
          /\ agg.bars[1][i].avg_response_time_ms = <<100000>>
          /\ agg.bars[1][i].checks = 2
          /\ agg.bars[1][i].status = "degraded"

\* The checks of all bars, and the percentages (in hundredths) weighted by checks.
TotalChecks(bars) == Sum([i \in DOMAIN bars |-> bars[i].checks], DOMAIN bars)

WeightedSum(bars) ==
    Sum([i \in DOMAIN bars |-> bars[i].uptime_percentage * bars[i].checks], DOMAIN bars)

Abs(x) == IF x < 0 THEN 0 - x ELSE x

\* C18: the overall percentage (in thousandths) is the check-count weighted
\* mean of the bars' percentages (in hundredths), to the three decimals it is
\* reported with, and 0 when the window has no checks.
C18_WeightedOverall ==
    agg.pc = "done" =>
        \A sid \in Range(agg.server_ids) :
            LET bars == agg.bulk[sid]
            IN  IF TotalChecks(bars) = 0
                THEN agg.overall[sid] = 0
                ELSE 2 * Abs(agg.overall[sid] * TotalChecks(bars) - 10 * WeightedSum(bars))
                        <= TotalChecks(bars)

\* One bucket with a single UP check and one with two checks of which one is
\* UP: the weighted mean is 66.667, the mean of the two percentages is 75.
C18_Witness ==
    /\ agg.pc = "done"
    /\ agg.server_ids = <<1>>
    /\ \E i, j \in 1..Len(agg.bulk[1]) :
          /\ agg.bulk[1][i].checks = 1 /\ agg.bulk[1][i].uptime_percentage = 10000
          /\ agg.bulk[1][j].checks = 2 /\ agg.bulk[1][j].uptime_percentage = 5000
    /\ agg.overall[1] = 66667

\* C19: the bars are in chronological order, each starts on a boundary of the
\* resolution, one unit after the one before, and the last one is the bucket
\* that contains the now that was passed in, wherever the clock is by then.
C19_AlignedChronological ==
    agg.pc = "done" =>
        \A sid \in AggIds :
            LET bars == agg.bars[sid]
            IN  /\ \A i \in 1..Len(bars) : bars[i].date % timedelta(agg.resolution) = 0
                /\ \A i \in 1..(Len(bars) - 1) :
                      bars[i + 1].date = bars[i].date + timedelta(agg.resolution)
                /\ bars[Len(bars)].date <= agg.now
                /\ agg.now < bars[Len(bars)].date + timedelta(agg.resolution)

\* Several bars, a now that is not on a boundary, and a clock that has moved
\* into the next bucket by the time the bars are built.
C19_Witness ==
    /\ agg.pc = "done"
    /\ agg.count > 1
    /\ agg.now % timedelta(agg.resolution) # 0
    /\ agg.clock >= agg.bars[1][agg.count].date + timedelta(agg.resolution)

\* C20: each bar counts the records of the target that lie in its bucket and
\* in the window [since, now), so the bars together count exactly the records
\* of the window.
C20_WindowRecordsCounted ==
    agg.pc = "done" =>
        /\ \A i \in 1..Len(agg.bars[1]) :
              LET from == agg.bars[1][i].date
                  to == from + timedelta(agg.resolution)
              IN  agg.bars[1][i].checks =
                     ChecksBetween(1, IF from < Since THEN Since ELSE from,
                                      IF to > agg.now THEN agg.now ELSE to)
        /\ TotalChecks(agg.bars[1]) = ChecksBetween(1, Since, agg.now)

\* C21: a bar reports an average response time exactly when its bucket has
\* checks and at least one of them has a response time.
C21_AvgOnlyFromResponseTimes ==
    agg.pc = "done" =>
        \A i \in 1..Len(agg.bars[1]) :
            LET from == agg.bars[1][i].date
                to == from + timedelta(agg.resolution)
            IN  agg.bars[1][i].avg_response_time_ms # <<>>
                    <=> /\ ChecksBetween(1, from, to) > 0
                        /\ TimedBetween(1, from, to) # {}

\* C22: a bar whose bucket holds no record of the server is unknown, with
\* percentage 0, no checks and no average; for a server without any record the
\* call returns count such bars, from _calculate_bars and from
\* _calculate_bars_bulk alike, and the overall percentage is 0.
C22_EmptyBucketUnknown ==
    agg.pc = "done" =>
        \A sid \in AggIds :
            LET empty(bar) == /\ bar.status = "unknown"
                              /\ bar.uptime_percentage = 0
                              /\ bar.checks = 0
                              /\ bar.avg_response_time_ms = <<>>
                lists == {agg.bars[sid]} \cup
                            (IF sid \in Range(agg.server_ids) THEN {agg.bulk[sid]} ELSE {})
            IN  \A bars \in lists :
                   /\ \A i \in 1..Len(bars) :
                         ChecksBetween(sid, bars[i].date,
                                       bars[i].date + timedelta(agg.resolution)) = 0
                            => empty(bars[i])
                   /\ RecordsOf(sid) = {} =>
                         /\ Len(bars) = agg.count
                         /\ \A i \in 1..Len(bars) : empty(bars[i])
                         /\ sid \in Range(agg.server_ids) => agg.overall[sid] = 0

\* Server 3 has no record and is in the list; server 1 has records in one
\* bucket and none in another.
C22_Witness ==
    /\ agg.pc = "done"
    /\ 3 \in Range(agg.server_ids)
    /\ agg.count > 1
    /\ agg.bulk[3][1].status = "unknown"
    /\ agg.overall[3] = 0
    /\ \E i, j \in 1..Len(agg.bars[1]) :
          /\ agg.bars[1][i].checks > 0
          /\ agg.bars[1][j].checks = 0 /\ agg.bars[1][j].status = "unknown"

\* The DOWN rows of server sid with a timestamp in [from, to).
DownBetween(sid, from, to) ==
    CountRows(agg.records, {r \in RecordsOf(sid) :
                              from <= r.timestamp /\ r.timestamp < to /\ r.status = "DOWN"})

\* C29: in every bar the check count is a natural number, the UP and the DOWN
\* checks of its bucket add up to it, the percentage (in hundredths) lies
\* between 0 and 100 and is, to the two decimals it is reported with,
\* UP checks / checks x 100 when there are checks.
C29_BucketInvariants ==
    agg.pc = "done" =>
        LET g == grouped_data(agg.records, 1, agg.now, agg.count, agg.resolution)
        IN  /\ \A key \in DOMAIN g : g[key].up + g[key].down = g[key].total
            /\ \A i \in 1..Len(agg.bars[1]) :
                  LET bar == agg.bars[1][i]
                      to == bar.date + timedelta(agg.resolution)
                      up == UpBetween(1, bar.date, to)
                  IN  /\ bar.checks \in Nat
                      /\ up + DownBetween(1, bar.date, to) = bar.checks
                      /\ bar.uptime_percentage \in 0..10000
                      /\ bar.checks > 0 =>
                            2 * Abs(bar.uptime_percentage * bar.checks - 10000 * up)
                               <= bar.checks

\* A bucket with three checks of which one is UP: 33.33 percent.
C29_Witness ==
    /\ agg.pc = "done"
    /\ \E i \in 1..Len(agg.bars[1]) :
          /\ agg.bars[1][i].checks = 3
          /\ UpBetween(1, agg.bars[1][i].date,
                       agg.bars[1][i].date + timedelta(agg.resolution)) = 1
          /\ agg.bars[1][i].uptime_percentage = 3333

(***************************************************************************)
(* get_uptime_bars                                                         *)
(***************************************************************************)

\* count=24 of get_uptime_bars and get_servers_with_uptime_bars
ForcedHours == 24

\* Mutant of get_uptime_bars: requested_days decides the window, daily bars
\* for more than one day.
get_uptime_bars_ByRequestedDays(rows, server, now, requested_days) ==
    IF requested_days <= 1
    THEN calculate_bars(rows, server.id, now, ForcedHours, "hour")
    ELSE calculate_bars(rows, server.id, now, requested_days, "day")

\* get_uptime_bars(db, server, requested_days), with the now it reads.
get_uptime_bars(rows, server, now, requested_days) ==
    calculate_bars(rows, server.id, now, ForcedHours, "hour")

\* The values of requested_days (the default is 30).
RequestedDays == {1, 30}

\* `now` of the calls: late enough for the window of 24 hours to begin after
\* tick 0; on an hour boundary or one tick past it.
AgeNows == {ForcedHours * timedelta("hour") + Epoch + d : d \in {0, 1}}

\* Server.created_at: long before the window, or one hour before now.
CreatedAt == {0, ForcedHours * timedelta("hour") + Epoch - timedelta("hour")}

\* Records of server 1: before the window, in its first and middle hours, in
\* the hour of now.
AgeRecords ==
    {Record(1, t, o.status, o.response_time_ms) :
        t \in {0, agg.now - ForcedHours * timedelta("hour") + timedelta("hour"),
               agg.now - (ForcedHours \div 2) * timedelta("hour"),
               floor_to("hour", agg.now)},
        o \in {[status |-> "UP", response_time_ms |-> <<500>>],
               [status |-> "DOWN", response_time_ms |-> <<>>]}}

\* A call of get_uptime_bars for server 1 as created at created_at; the clock
\* reads agg.now.
GetUptimeBars(created_at, requested_days) ==
    /\ agg.pc \in {"open", "called"}
    /\ LET server == [id |-> 1, created_at |-> created_at]
           call == [server |-> server, requested_days |-> requested_days,
                    bars |-> get_uptime_bars(agg.records, server, agg.now, requested_days)]
       IN  /\ call \notin agg.calls
           /\ agg' = [agg EXCEPT !.pc = "called", !.calls = @ \cup {call}]
    /\ UNCHANGED aggFrame

InitAge ==
    /\ InitAggCommon
    /\ agg \in {[pc |-> "open", records |-> EmptyBag, now |-> now, calls |-> {}] :
                  now \in AgeNows}

NextAge ==
    \/ \E r \in AgeRecords : InsertRecord(r)
    \/ \E created_at \in CreatedAt, requested_days \in RequestedDays :
          GetUptimeBars(created_at, requested_days)

AgeSpec == InitAge /\ [][NextAge]_vars

\* C30: all calls of get_uptime_bars over the same records at the same now
\* return the same bars, whatever requested_days and the age of the server:
\* 24 bars, one hour apart.
C30_AgeAndDaysIgnored ==
    \A c \in agg.calls :
        /\ Len(c.bars) = 24
        /\ \A i \in 1..(Len(c.bars) - 1) :
              c.bars[i + 1].date = c.bars[i].date + timedelta("hour")
        /\ \A d \in agg.calls : d.bars = c.bars

\* Two calls that differ in requested_days and in the age of the server, over
\* records in the window, one of them older than the server.
C30_Witness ==
    /\ \E c, d \in agg.calls :
          /\ c.requested_days # d.requested_days
          /\ c.server.created_at # d.server.created_at
          /\ \E i \in 1..Len(c.bars) : c.bars[i].checks > 0
    /\ \E r \in BagToSet(agg.records), c \in agg.calls :
          /\ r.timestamp < c.server.created_at
          /\ r.timestamp >= agg.now - ForcedHours * timedelta("hour")

\* The servers the rows added by this step belong to.
NewRowIds == {r.server_id : r \in store' \ store}

\* C23: every iteration reads the servers table when it begins: the
\* bounded_ping tasks it creates are one for each server that is in the table
\* then, servers added before included and servers deleted before excluded;
\* only these are probed, and the rows its commit writes are one for each.
C23_FreshTargetList ==
    [][\A k \in Tasks :
          /\ (pc[k] = "fetch" /\ pc'[k] = "gather") =>
                /\ {t \in Targets : child'[k][t] = "wait"} = directory
                /\ servers'[k] = directory
          /\ \A t \in Targets :
                (child[k][t] = "wait" /\ child'[k][t] = "inflight") => t \in servers[k]
          /\ (pc[k] = "commit" /\ pc'[k] = "sleep" /\ iterErr'[k] = "none") =>
                /\ NewRowIds = servers[k]
                /\ Cardinality(store' \ store) = Cardinality(servers[k])]_vars

\* One loop task has committed two batches: the first over server 1 alone,
\* the second over servers 1 and 2.
C23_Witness ==
    /\ NumCreated = 1
    /\ {r.server_id : r \in RowsOfBatch(1)} = {1}
    /\ {r.server_id : r \in RowsOfBatch(2)} = {1, 2}

\* C25: when get_servers returns no server the call of ping_all_servers ends
\* there: no bounded_ping task, no record in the session, no commit, no new
\* row, no error; and no batch reaches gather or commit with an empty list.
C25_EmptyBatchNoOp ==
    /\ [][\A k \in Tasks :
            (/\ pc[k] = "fetch" /\ pc'[k] # "fetch"
             /\ directory = {}
             /\ iterErr'[k] \notin {"swallowed", "raised"}) =>
                /\ pc'[k] = "sleep"
                /\ iterErr'[k] = "none"
                /\ store' = store
                /\ child'[k] = NoChildren
                /\ db'[k] = EmptySession]_vars
    /\ [](\A k \in Tasks : pc[k] \in {"gather", "commit"} => servers[k] # {})

\* A batch over the empty table has ended without an error and the loop task
\* sleeps.
C25_Witness ==
    \E k \in Tasks :
        /\ pc[k] = "sleep"
        /\ batchOf[k] >= 1
        /\ servers[k] = {}
        /\ directory = {}
        /\ iterErr[k] = "none"
        /\ RowsOfBatch(batchOf[k]) = {}

\* C26: when db.commit() fails, the exception leaves ping_all_servers and is
\* seen by the handler of ping_loop, and the loop goes on to its sleep.
C26_CommitFailureReachesLoop ==
    [][\A k \in Tasks :
          (pc[k] = "commit" /\ pc'[k] # "commit" /\ ~cancelReq[k] /\ iterErr'[k] # "none") =>
              /\ iterErr'[k] = "raised"
              /\ pc'[k] = "sleep"]_vars

\* C24: in a batch over more servers than the semaphore has slots, the
\* bounded_ping task that has to wait gets its slot, and the batch ends with
\* one row for every server committed. (The application has one loop task.)
C24_LargeBatchCompletes ==
    /\ (\E k \in Tasks : child[k][GateTargets] = "wait" /\ sem[k] = 0)
          ~> (\E k \in Tasks : child[k][GateTargets] = "inflight")
    /\ \A b \in 1..MaxBatches :
          (\E k \in Tasks : batchOf[k] = b /\ pc[k] = "gather")
              ~> ({r.server_id : r \in RowsOfBatch(b)} = 1..GateTargets)

\* Ten probes are in flight, the last server waits at the semaphore.
C24_Witness ==
    \E k \in Tasks :
        /\ pc[k] = "gather"
        /\ sem[k] = 0
        /\ child[k][GateTargets] = "wait"
        /\ Cardinality({t \in Targets : child[k][t] = "inflight"}) = SemLimit

(***************************************************************************)
(* The core together: scheduled batches, manual probes, aggregation        *)
(***************************************************************************)

\* `now` of the aggregation: after every commit.
CoreNow == Epoch + MaxBatches + 1

\* The committed rows as the aggregator reads them. The rows of one commit
\* share the timestamp of their transaction (server_default=func.now()); a
\* measured response time is taken to be 500 ms.
AsRecords(rows) ==
    SetToBag({Record(r.server_id, Epoch + r.batch, r.status,
                     IF r.response_time_ms = "ms" THEN <<500>> ELSE <<>>) : r \in rows})

\* get_uptime_bars-like call of _calculate_bars for one server over the
\* committed rows.
Aggregate(server_id) ==
    /\ agg' = [pc |-> "done", server_id |-> server_id,
               bars |-> calculate_bars(AsRecords(store), server_id, CoreNow, MaxCount, "hour")]
    /\ agg' # agg
    /\ UNCHANGED aggFrame

\* The running application with targets that all answer the same way; the
\* session accepts every record.
InitCore ==
    /\ InitCommon
    /\ agg = NoAgg
    /\ limiter = NoLimiter
    /\ app = "startup"
    /\ http_client = NoClient
    /\ directory = 1..NumTargets
    /\ net \in {[t \in Targets |-> r] : r \in {"ok", "fault"}}

NextCore ==
    \/ LifespanStartup
    \/ \E k \in Tasks : LoopStep(k)
    \/ (\E id \in {1, NumTargets + 1} : ping_server_now(id)) /\ app = "serving"
    \/ \E resp \in {"ok", "timeout"} : NowProbe(resp)
    \/ NowCommit
    \/ NowRefresh
    \/ Aggregate(1)

CoreSpec == InitCore /\ [][NextCore]_vars

\* C27: every probe that ends puts exactly one record into its session, a
\* failed one a DOWN record without response time; a commit writes each of
\* them as one new row; no step of the scheduler, of a manual probe or of the
\* aggregator changes or removes a row, and the aggregator adds none.
C27_RecordsAppendOnly ==
    [][/\ store \subseteq store'
       /\ agg' # agg => store' = store
       /\ \A k \in Tasks, t \in Targets :
             (child[k][t] = "inflight" /\ child'[k][t] = "done") =>
                 /\ db[k][t] = <<>>
                 /\ Len(db'[k][t]) = 1
                 /\ net[t] \in {"timeout", "fault"} =>
                       db'[k][t][1] = UptimeRecord("DOWN", "None")
       /\ \A k \in Tasks :
             (pc[k] = "commit" /\ pc'[k] # "commit" /\ store' # store) =>
                 /\ store' \ store = SessionRows(k)
                 /\ \A t \in servers[k] :
                       Cardinality({r \in store' \ store : r.server_id = t}) = 1
       /\ (manual.pc = "commit" /\ manual'.pc = "refresh") =>
             /\ store' \ store = {ManualRow}
             /\ manual.resp = "timeout" =>
                   ManualRow.status = "DOWN" /\ ManualRow.response_time_ms = "None"
      ]_vars

\* Rows of two batches and of a manual probe that timed out are in the store
\* and the aggregator has run over them.
C27_Witness ==
    /\ RowsOfBatch(1) # {}
    /\ RowsOfBatch(2) # {}
    /\ \E r \in store : r.batch < 0 /\ r.status = "DOWN" /\ r.response_time_ms = "None"
    /\ agg.pc = "done"
    /\ \E i \in 1..Len(agg.bars) : agg.bars[i].checks > 0

(***************************************************************************)
(* Rate limiting of the API (slowapi)                                      *)
(***************************************************************************)

\* @limiter.limit("5/minute") of the login routes
LoginLimit == 5

\* The limits the attack test names for GET /api/servers and for
\* GET /api/servers/with-bars, and the requests it sends beyond them.
ServersTestLimit == 60
WithBarsTestLimit == 20
Excess == 5

\* The routes the requests go to, in the order the requests are sent.
Routes == <<"servers", "with_bars", "login">>

\* The limit a decorator puts on the route, 0 for none: the login routes have
\* one, get_all_servers and get_servers_with_uptime_bars have none.
route_limits(route) == IF route = "login" THEN LoginLimit ELSE 0

\* default_limits of the Limiter in requests per minute, 0 for none.
default_limits == {0, WithBarsTestLimit, ServersTestLimit}

\* The requests sent to a route: the limit that is expected there, and five.
Burst(route) ==
    Excess + (CASE route = "servers" -> ServersTestLimit
                [] route = "with_bars" -> WithBarsTestLimit
                [] route = "login" -> LoginLimit)

limiterFrame == <<running, ping_task, taskVars, store, directory, net, http_client,
                  lastCall, manual, agg,
                  stopWait, log, app>>

\* One client sends a request to the route. SlowAPIMiddleware counts it
\* against the limit of the route's decorator or, for a route without one,
\* against the default limit, per client and route in a window of one minute;
\* a request over the limit is answered 429.
Request(route) ==
    /\ limiter.sent[route] < Burst(route)
    /\ \A i \in 1..Len(Routes) :
          Routes[i] = route => \A j \in 1..(i - 1) :
                                  limiter.sent[Routes[j]] = Burst(Routes[j])
    /\ LET limit == IF route_limits(route) # 0 THEN route_limits(route)
                    ELSE limiter.default
           pass == limit = 0 \/ limiter.hits[route] < limit
       IN  limiter' = [limiter EXCEPT
                         !.sent[route] = @ + 1,
                         !.hits[route] = IF pass THEN @ + 1 ELSE @,
                         !.ok[route] = IF pass THEN @ + 1 ELSE @,
                         !.blocked[route] = IF pass THEN @ ELSE @ + 1]
    /\ UNCHANGED limiterFrame

\* The window of one minute ends: the counters start again.
MinutePasses ==
    /\ ~limiter.elapsed
    /\ limiter' = [limiter EXCEPT
                     !.elapsed = TRUE,
                     !.hits = [r \in DOMAIN limiter.hits |-> 0]]
    /\ UNCHANGED limiterFrame

InitLimiter ==
    /\ InitCommon
    /\ agg = NoAgg
    /\ app = "serving"
    /\ http_client = init_http_client(NoClient)
    /\ directory = 1..NumTargets
    /\ net = [t \in Targets |-> "ok"]
    /\ limiter \in {[default |-> d, elapsed |-> FALSE,
                     sent |-> [r \in Range(Routes) |-> 0],
                     hits |-> [r \in Range(Routes) |-> 0],
                     ok |-> [r \in Range(Routes) |-> 0],
                     blocked |-> [r \in Range(Routes) |-> 0]] : d \in default_limits}

NextLimiter ==
    \/ \E i \in 1..Len(Routes) : Request(Routes[i])
    \/ MinutePasses

LimiterSpec == InitLimiter /\ [][NextLimiter]_vars

\* C28: of the limit + 5 requests one client sends within a minute to
\* /api/servers (limit 60) and to /api/servers/with-bars (limit 20), at least
\* one is answered 429 and at most the limit are answered 200.
C28_PublicRoutesLimited ==
    ~limiter.elapsed =>
        /\ limiter.sent["servers"] = ServersTestLimit + Excess =>
              /\ limiter.blocked["servers"] >= 1
              /\ limiter.ok["servers"] <= ServersTestLimit
        /\ limiter.sent["with_bars"] = WithBarsTestLimit + Excess =>
              /\ limiter.blocked["with_bars"] >= 1
              /\ limiter.ok["with_bars"] <= WithBarsTestLimit

(***************************************************************************)
(* start_ping_scheduler and stop_ping_scheduler called concurrently        *)
(***************************************************************************)

\* C31: under every interleaving of start() and stop() calls every live loop
\* task is the one the task handle refers to, so no loop task is orphaned and
\* at most one loop task is alive.
C31_NoOrphanedLoop ==
    /\ \A k \in Tasks : Alive(k) => ping_task = k
    /\ Cardinality(AliveTasks) <= 1

\* C32: a start() call is never lost. When the last call of the scheduler was
\* a start() and no stop() call is suspended any more, the scheduler is
\* RUNNING, also when that start() ran while an earlier stop() was waiting.
C32_StartNeverLost ==
    (lastCall = "start" /\ Sum(stopWait, Tasks) = 0) => Running

\* C33: whenever no start() or stop() call is in progress, the running flag is
\* true if and only if the task handle refers to a loop task that has not
\* finished.
C33_FlagAndHandleAgree ==
    Sum(stopWait, Tasks) = 0 =>
        (running <=> (ping_task # 0 /\ ~TaskDone(ping_task)))

(***************************************************************************)
(* A server deleted while a batch is in flight                             *)
(***************************************************************************)

\* C34: when one server was deleted after the batch listed its servers and
\* before its commit, the records of the batch for the servers that still
\* exist are committed all the same.
C34_DeletionKeepsOtherRecords ==
    [][\A k \in Tasks :
          (/\ pc[k] = "commit" /\ pc'[k] = "sleep"
           /\ servers[k] \ directory # {}) =>
              \A t \in servers[k] \cap directory :
                  \E r \in store' : r.batch = batchOf[k] /\ r.server_id = t]_vars

(***************************************************************************)
(* A manual probe while the scheduler runs and is stopped                  *)
(***************************************************************************)

\* The application with targets that all answer the same way; a request of
\* ping_server_now arrives while the application serves and goes on while a
\* batch commits, fails or is cancelled by the shutdown.
InitConcurrent ==
    /\ InitCommon
    /\ agg = NoAgg
    /\ limiter = NoLimiter
    /\ app = "startup"
    /\ http_client = NoClient
    /\ directory = 1..NumTargets
    /\ net \in {[t \in Targets |-> r] : r \in {"ok", "timeout"}}

NextConcurrent ==
    \/ LifespanStartup
    \/ LifespanShutdown
    \/ \E k \in Tasks : LifespanStopped(k)
    \/ \E k \in Tasks : LoopStep(k)
    \/ \E k \in Tasks : CancelStep(k)
    \/ ping_server_now(1) /\ app = "serving"
    \/ \E resp \in {"ok", "timeout"} : NowProbe(resp)
    \/ NowCommit
    \/ NowRefresh

ConcurrentSpec == InitConcurrent /\ [][NextConcurrent]_vars

\* C35: the commit of a manual probe writes its one record and nothing else,
\* whatever the batches hold, and leaves their sessions alone; no step, a
\* rollback or a cancellation included, removes a row; and a batch that
\* writes, writes the records of its own session, one per server it listed.
C35_ManualProbeIndependent ==
    [][/\ store \subseteq store'
       /\ (manual.pc = "commit" /\ manual'.pc # "commit") =>
             /\ manual'.pc = "refresh"
             /\ ManualRow \notin store
             /\ store' = store \cup {ManualRow}
             /\ db' = db /\ pc' = pc
       /\ \A k \in Tasks :
             (pc[k] = "commit" /\ pc'[k] # "commit" /\ store' # store) =>
                 /\ store' \ store = SessionRows(k)
                 /\ \A r \in store' \ store : r.batch = batchOf[k]
                 /\ \A t \in servers[k] :
                       Cardinality({r \in store' \ store : r.server_id = t}) = 1
      ]_vars

\* The record of a manual probe was committed while a batch held records in
\* its session; the shutdown has cancelled that batch, whose records were
\* dropped, and the manual probe is still in progress.
C35_Witness ==
    /\ manual.pc = "refresh"
    /\ ManualRow \in store
    /\ \E k \in Tasks :
          /\ pc[k] = "done"
          /\ dropped[k] > 0
          /\ RowsOfBatch(batchOf[k]) = {}

(***************************************************************************)
(* The interval wait of ping_loop                                          *)
(***************************************************************************)

\* C36: the first step of a loop task starts its first batch (or ends the
\* task), without a wait; a batch starts only from there or from the interval
\* wait; a batch that ends, committed or failed, leads to the interval wait
\* (or, cancelled, to the end of the task); and the wait leads to the next
\* batch or to the end of the task.
C36_OneWaitBetweenBatches ==
    [][\A k \in Tasks :
          /\ (pc[k] = "new" /\ pc'[k] # "new") => pc'[k] \in {"fetch", "done"}
          /\ (pc'[k] = "fetch" /\ pc[k] # "fetch") => pc[k] \in {"new", "sleep"}
          /\ batchOf'[k] # batchOf[k] =>
                (pc[k] \in {"new", "sleep"} /\ pc'[k] = "fetch")
          /\ (InBatch(k) /\ pc'[k] \notin {"fetch", "gather", "commit"}) =>
                pc'[k] \in {"sleep", "done"}
          /\ (pc[k] = "sleep" /\ pc'[k] # "sleep") => pc'[k] \in {"fetch", "done"}]_vars

\* The second batch of one loop task is under way after its first batch
\* failed and the loop waited.
C36_Witness ==
    \E k \in Tasks :
        /\ NumCreated = 1
        /\ pc[k] = "gather"
        /\ batchOf[k] = 2
        /\ iterErr[k] = "swallowed"

(***************************************************************************)
(* The order of the lifespan                                               *)
(***************************************************************************)

\* The lifespan is past stop_ping_scheduler(): it closes the HTTP client, then
\* the database, or has done so.
PastStop == app \in {"closing_client", "closing_db", "closed"}

\* C37: a loop task is created only with an open HTTP client behind the
\* handle; the client is closed only after stop_ping_scheduler() has returned,
\* with no loop task alive, and the database after the client; every
\* scheduled probe is sent with the open client of the startup, and from the
\* closing of the client on no step of the scheduler happens and no row is
\* written.
C37_LifecycleOrder ==
    /\ [][/\ (\E k \in Tasks : pc[k] = "none" /\ pc'[k] = "new") =>
                /\ http_client'.handle # 0
                /\ http_client'.handle \in http_client'.open
          /\ \A k \in Tasks, t \in Targets :
                (child[k][t] = "wait" /\ child'[k][t] = "inflight") =>
                    /\ http_client.handle \in http_client.open
                    /\ http_client' = http_client
          /\ PastStop => (taskVars' = taskVars /\ store' = store)
          /\ (app = "closing_db" \/ app' = "closed") => http_client'.handle = 0]_vars
    /\ [](/\ PastStop => (Stopped /\ ~running /\ ping_task = 0)
          /\ (http_client.made > 0 /\ http_client.open = {}) => PastStop
          /\ http_client.made <= 1)

\* The application has run batches, was shut down and is closed: the loop
\* task is done, the client is closed and the handle cleared.
C37_Witness ==
    /\ app = "closed"
    /\ \E k \in Tasks : pc[k] = "done" /\ cancelReq[k]
    /\ store # {}
    /\ http_client = [handle |-> 0, open |-> {}, closing |-> 0, made |-> 1]

(***************************************************************************)
(* The overall percentage against the records                              *)
(***************************************************************************)

\* The records of server sid counted in the buckets of its bars, and the UP
\* ones among them.
CountedChecks(sid, bars) ==
    Sum([i \in DOMAIN bars |->
            ChecksBetween(sid, bars[i].date, bars[i].date + timedelta(agg.resolution))],
        DOMAIN bars)

CountedUp(sid, bars) ==
    Sum([i \in DOMAIN bars |->
            UpBetween(sid, bars[i].date, bars[i].date + timedelta(agg.resolution))],
        DOMAIN bars)

\* C38: the overall percentage of a server (in thousandths) lies in [0, 100]
\* and differs from 100 * UP / total, over the records counted in its bars, by
\* no more than the rounding of the bars' percentages to two decimals (0.005)
\* and its own rounding to three (0.0005).
C38_OverallIsUpRatio ==
    agg.pc = "done" =>
        \A sid \in Range(agg.server_ids) :
            LET bars == agg.bulk[sid]
                total == CountedChecks(sid, bars)
                up == CountedUp(sid, bars)
            IN  /\ 0 <= agg.overall[sid] /\ agg.overall[sid] <= 100000
                /\ total > 0 =>
                      2 * Abs(agg.overall[sid] * total - 100000 * up) <= 11 * total

\* Three checks with one UP in one bucket (33.33) and one UP check in the
\* other: two of four records are UP and the reported percentage is not 50.
C38_Witness ==
    /\ agg.pc = "done"
    /\ agg.server_ids = <<1>>
    /\ CountedChecks(1, agg.bulk[1]) = 4
    /\ CountedUp(1, agg.bulk[1]) = 2
    /\ \E i \in 1..Len(agg.bulk[1]) : agg.bulk[1][i].uptime_percentage = 3333
    /\ agg.overall[1] # 50000
    /\ agg.overall[1] \in 49995..50005

(***************************************************************************)
(* The shared HTTP client                                                  *)
(***************************************************************************)

clientFrame == <<running, ping_task, taskVars, store, directory, net, limiter,
                 lastCall, manual, agg, stopWait, app>>

\* Any coroutine calls init_http_client().
CallInitClient ==
    /\ CanCreate(http_client)
    /\ http_client' = init_http_client(http_client)
    /\ log' = ""
    /\ UNCHANGED clientFrame

\* A coroutine calls close_http_client() while no other call of it is
\* suspended (the lifespan is its only caller).
CallCloseClient ==
    /\ http_client.closing = 0
    /\ http_client' = close_http_client(http_client)
    /\ log' = ""
    /\ UNCHANGED clientFrame

\* The suspended call of close_http_client() returns.
CloseClientReturn ==
    /\ http_client.closing # 0
    /\ http_client' = CloseResume(http_client)
    /\ log' = ""
    /\ UNCHANGED clientFrame

\* The running application, whose requests all time out, while the client is
\* initialised and closed at any time: the probes of a batch and a manual
\* probe find the client of the startup, a closed one or none.
InitClient ==
    /\ InitCommon
    /\ agg = NoAgg
    /\ limiter = NoLimiter
    /\ app = "startup"
    /\ http_client = NoClient
    /\ directory = 1..NumTargets
    /\ net = [t \in Targets |-> "timeout"]

NextClient ==
    \/ LifespanStartup
    \/ \E k \in Tasks : LoopStep(k)
    \/ ping_server_now(1) /\ app = "serving"
    \/ NowProbe("timeout")
    \/ NowCommit
    \/ NowRefresh
    \/ CallInitClient
    \/ CallCloseClient
    \/ CloseClientReturn

ClientSpec == InitClient /\ [][NextClient]_vars

\* The step sends the request of a probe: of a batch (bounded_ping enters
\* ping_server) or of ping_server_now.
ProbeIssued ==
    \/ \E k \in Tasks, t \in Targets : child[k][t] = "wait" /\ child'[k][t] = "inflight"
    \/ manual.pc = "idle" /\ manual'.pc = "probe"

\* C39: at most one HTTP client is open at any time, and it is the one the
\* handle refers to; a client is created only when the handle is None, one at
\* a time; a probe sent while no close_http_client() is suspended is sent with
\* an open client, a new one when the handle was None.
C39_OneSharedClient ==
    /\ [][/\ http_client'.made # http_client.made =>
                /\ http_client.handle = 0
                /\ http_client'.made = http_client.made + 1
                /\ http_client'.handle = http_client'.made
                /\ http_client'.open = http_client.open \cup {http_client'.made}
          /\ (ProbeIssued /\ http_client.closing = 0) =>
                /\ http_client'.handle \in http_client'.open
                /\ http_client.handle # 0 => http_client' = http_client
                /\ http_client.handle = 0 => http_client'.handle = http_client.made + 1]_vars
    /\ [](/\ Cardinality(http_client.open) <= 1
          /\ http_client.open \subseteq {http_client.handle}
          /\ http_client.closing = 0 => http_client.open = {http_client.handle} \ {0})

\* The client of the startup was closed; the two probes of a batch are in
\* flight, the second client is open and is the only one.
C39_Witness ==
    /\ http_client = [handle |-> 2, open |-> {2}, closing |-> 0, made |-> 2]
    /\ \E k \in Tasks : child[k][1] = "inflight" /\ child[k][2] = "inflight"

====
